---------------------------- MODULE Spec2Model ----------------------------
(***************************************************************************)
(* A model of the experiment scripts of parsec-benchmark:                  *)
(*   scripts/threadedcg.py   ThreadedCG (cgroup partitioning)              *)
(*   scripts/parsecRun.py    ParsecRun (workload handle)                   *)
(*   scripts/thread-sweep.py launchTest / sweep (orchestrator)             *)
(*   scripts/csvFields.py    raw and deductive record fields               *)
(*   scripts/utils.py        getCoreList and friends                       *)
(*   scripts/profiler.py     Profiler.run (the start of a profiler)        *)
(* and of one trial with partitioning active, whose steps are the calls    *)
(* above in the order the orchestrator's design gives them.                *)
(*                                                                         *)
(* Text is modelled as sequences of one-character strings, so that         *)
(* str.split, int(), float(), str.join and == compute what Python          *)
(* computes.  Control files below /sys/fs/cgroup are kernel interface      *)
(* files: a write is a command the kernel parses, a read is the kernel's   *)
(* rendering of the node's state, newline-terminated.                      *)
(***************************************************************************)
EXTENDS Integers, Sequences, FiniteSets, TLC

(***************************************************************************)
(* Bounds of the model.                                                    *)
(***************************************************************************)
MaxCores == 4
MaxTids == 3
MaxSeed == 5
MaxThreads == 4
MaxPolls == 5
MaxTrials == 2

(***************************************************************************)
(* Text helpers.                                                           *)
(***************************************************************************)
DigitChars == <<"0", "1", "2", "3", "4", "5", "6", "7", "8", "9">>

IsDigit(c) == \E i \in 1..10 : DigitChars[i] = c

DigitVal(c) == (CHOOSE i \in 1..10 : DigitChars[i] = c) - 1

IsSpace(c) == c \in {" ", "\n", "\t"}

RECURSIVE IntToStr(_)
IntToStr(n) ==
    IF n < 10 THEN <<DigitChars[n + 1]>>
    ELSE IntToStr(n \div 10) \o <<DigitChars[(n % 10) + 1]>>

RECURSIVE DigitsVal(_)
DigitsVal(s) ==
    IF s = <<>> THEN 0
    ELSE 10 * DigitsVal(SubSeq(s, 1, Len(s) - 1)) + DigitVal(s[Len(s)])

AllDigits(s) == s # <<>> /\ \A i \in 1..Len(s) : IsDigit(s[i])

RECURSIVE LStrip(_)
LStrip(s) == IF s # <<>> /\ IsSpace(s[1]) THEN LStrip(Tail(s)) ELSE s

RECURSIVE RStrip(_)
RStrip(s) ==
    IF s # <<>> /\ IsSpace(s[Len(s)]) THEN RStrip(SubSeq(s, 1, Len(s) - 1))
    ELSE s

Strip(s) == RStrip(LStrip(s))

\* int(s): surrounding whitespace is ignored, then decimal digits are needed.
\* [ok |-> FALSE] stands for the ValueError.
ParseInt(s) ==
    LET t == Strip(s)
    IN  IF AllDigits(t) THEN [ok |-> TRUE, val |-> DigitsVal(t)]
        ELSE [ok |-> FALSE, val |-> 0]

\* str.split(sep) for a one-character separator: always at least one field.
RECURSIVE SplitOn(_, _)
SplitOn(s, sep) ==
    IF \A i \in 1..Len(s) : s[i] # sep THEN <<s>>
    ELSE LET k == CHOOSE i \in 1..Len(s) :
                      s[i] = sep /\ \A j \in 1..(i - 1) : s[j] # sep
         IN  <<SubSeq(s, 1, k - 1)>> \o SplitOn(SubSeq(s, k + 1, Len(s)), sep)

\* str.split(): runs of whitespace separate, no empty fields.
RECURSIVE SplitWS(_)
SplitWS(s) ==
    LET t == LStrip(s)
    IN  IF t = <<>> THEN <<>>
        ELSE IF \A i \in 1..Len(t) : ~IsSpace(t[i]) THEN <<t>>
        ELSE LET k == CHOOSE i \in 1..Len(t) :
                          IsSpace(t[i]) /\ \A j \in 1..(i - 1) : ~IsSpace(t[j])
             IN  <<SubSeq(t, 1, k - 1)>> \o SplitWS(SubSeq(t, k + 1, Len(t)))

\* str.splitlines(): a trailing newline ends the last line, it opens no new one.
SplitLines(s) ==
    IF s = <<>> THEN <<>>
    ELSE IF s[Len(s)] = "\n" THEN SplitOn(SubSeq(s, 1, Len(s) - 1), "\n")
    ELSE SplitOn(s, "\n")

\* sep.join(parts)
RECURSIVE Join(_, _)
Join(parts, sep) ==
    IF parts = <<>> THEN <<>>
    ELSE IF Len(parts) = 1 THEN parts[1]
    ELSE parts[1] \o sep \o Join(Tail(parts), sep)

StartsWith(s, p) == Len(s) >= Len(p) /\ SubSeq(s, 1, Len(p)) = p

SeqToSet(s) == {s[i] : i \in 1..Len(s)}

MapStr(ints) == [i \in 1..Len(ints) |-> IntToStr(ints[i])]

\* The members of a finite set of numbers in increasing order.
RECURSIVE SortedSeq(_)
SortedSeq(S) ==
    IF S = {} THEN <<>>
    ELSE LET m == CHOOSE x \in S : \A y \in S : x <= y
         IN  <<m>> \o SortedSeq(S \ {m})


(***************************************************************************)
(* State of the cgroup partition (threadedcg.py).                          *)
(*   lscpu     the host's "lscpu -p=node,CPU" lines (utils.getCoreList)    *)
(*   hostCtl   controllers the parent cgroup delegates to new children     *)
(*   fs        the cgroup node /sys/fs/cgroup/<cgname> and its children    *)
(*   tidCg     kernel thread id -> the cgroup directory holding it         *)
(*   cgobj     the constructed ThreadedCG (numcgroups, subcgNames) or NoCG *)
(*   lastCall  the last ThreadedCG call: arguments, mutations, outcome     *)
(*   lastSplit what the last randTIDCluster read and how it split it       *)
(***************************************************************************)
VARIABLES lscpu, hostCtl, fs, tidCg, cgobj, lastCall, lastSplit

cgVars == <<lscpu, hostCtl, fs, tidCg, cgobj, lastCall, lastSplit>>

(***************************************************************************)
(* State of one workload handle (parsecRun.py).                            *)
(*   handle         ncores and oversub of the run                          *)
(*   pidfile        the handshake file: its content and the offset of the  *)
(*                  parent's open file object                              *)
(*   pid            self.pid (NoPid for None)                              *)
(*   tidStabilized  self.tidStabilized                                     *)
(*   rpc            where the control thread is inside ParsecRun           *)
(*   now, deadline  time since the running getPid started and its          *)
(*                  waitPIDFileReadTimeout, in tenths of a second; in the  *)
(*                  loop of waitUntilTIDStabilized, now is the time the    *)
(*                  loop has slept                                         *)
(*   w              nThStayStable and nTh of waitUntilTIDStabilized        *)
(*   obs            the thread counts the running or last wait observed    *)
(*   lastRun        the running or last ParsecRun call and its outcome     *)
(***************************************************************************)
VARIABLES handle, pidfile, pid, tidStabilized, rpc, now, deadline, w, obs, lastRun

runVars == <<handle, pidfile, pid, tidStabilized, rpc, now, deadline, w, obs, lastRun>>

(***************************************************************************)
(* State of the sweep (thread-sweep.py).                                   *)
(*   args        the parsed command line                                   *)
(*   spc         where the sweep is: between trials, inside launchTest,    *)
(*               finished, or ended by an exception                        *)
(*   trialNo     how many iterations of the trial loops have been entered  *)
(*   timeTemp    the content of args.time_temp (NoFile when it is absent)  *)
(*   csvRows     the rows given to csvWriter.writerow, in order            *)
(*   lastRecord  what the last trial read from args.time_temp and made of  *)
(*               it                                                        *)
(*   swExc       the exception that ended the sweep, or "none"             *)
(*   launches    one entry per launchTest call: its pid file, its command, *)
(*               its child process, what it read and what became of it     *)
(*   csvfile     args.output: what is on disk, what is in the buffer of    *)
(*               the open file object, and whether that object is closed   *)
(***************************************************************************)
VARIABLES args, spc, trialNo, timeTemp, csvRows, lastRecord, swExc, launches, csvfile

sweepVars ==
    <<args, spc, trialNo, timeTemp, csvRows, lastRecord, swExc, launches, csvfile>>

(***************************************************************************)
(* State of one partitioned trial of the orchestrator.                     *)
(*   trial   whether a trial is being driven, the step the control thread  *)
(*           has reached in it, and the steps it has completed, in order   *)
(***************************************************************************)
VARIABLES trial

(***************************************************************************)
(* State of one profiler object (profiler.py).                             *)
(*   prof   its variant, where the control thread is in run and callback,  *)
(*          its companion process, its output file, and the signals sent   *)
(*          to the companion                                               *)
(***************************************************************************)
VARIABLES prof

(***************************************************************************)
(* A call of one of the functions of utils.py, or the record that          *)
(* csv_postprocess.py is working on.                                       *)
(*   fcall   the function, its arguments, what it returned or raised, and  *)
(*           for a record how many times the chain has been applied to it  *)
(***************************************************************************)
VARIABLES fcall

vars == <<cgVars, runVars, sweepVars, trial, prof, fcall>>

notCG == <<runVars, sweepVars, prof, fcall>>

notRun == <<cgVars, sweepVars, prof, fcall>>

notSweep == <<cgVars, runVars, trial, prof, fcall>>

notProf == <<cgVars, sweepVars, trial, fcall>>

notFun == <<fs, tidCg, cgobj, lastCall, lastSplit, hostCtl, runVars, sweepVars, trial, prof>>

\* self.pid = None
NoPid == -1

NoTrial == [on |-> FALSE, pc |-> "none", events |-> <<>>]

\* The control thread moves on to step pc, having completed event.
TrialDone(event, pc) ==
    trial' = [trial EXCEPT !.pc = pc, !.events = Append(@, event)]

\* One trial with partitioning active: set the partition up, launch the
\* workload, track its resolved pid into the root node, wait for the thread
\* count to be stable, redistribute the threads, start the profiler.  An
\* exception in a step ends the trial.  `op` is the operation that is about
\* to act; when no trial is driven nothing constrains it.
Sched(op) ==
    IF ~trial.on THEN UNCHANGED trial
    ELSE CASE op = "ensure" ->
                /\ trial.pc = "setup"
                /\ TrialDone("setup", IF lastCall'.exc = "none" THEN "launch" ELSE "failed")
           [] op = "runDetached" ->
                /\ trial.pc = "launch"
                /\ trial' = [trial EXCEPT !.pc = "track"]
           [] op = "child" ->
                /\ trial.pc \notin {"setup", "launch"}
                /\ UNCHANGED trial
           [] op = "getPid" ->
                /\ trial.pc = "track"
                /\ pid = NoPid
                /\ UNCHANGED trial
           [] op = "getPidStep" ->
                trial' = IF lastRun'.exc \in {"none", "running"} THEN trial
                         ELSE [trial EXCEPT !.pc = "failed"]
           [] op = "trackPID" ->
                /\ trial.pc = "track"
                /\ rpc = "idle"
                /\ pid # NoPid
                /\ TrialDone("track", "stabilize")
           [] op = "wait" ->
                /\ trial.pc = "stabilize"
                /\ ~tidStabilized
                /\ UNCHANGED trial
           [] op = "randTIDCluster" ->
                /\ trial.pc = "stabilize"
                /\ rpc = "idle"
                /\ tidStabilized
                /\ TrialDone("redistribute", "profile")
           [] op = "profiler" ->
                /\ trial.pc = "profile"
                /\ TrialDone("profile", "profiling")
           [] OTHER -> UNCHANGED trial

ROOT == <<>>

NoCG == [numcgroups |-> 0, subcgNames |-> <<>>]

\* What one randTIDCluster call read, drew and split.
NoRedistribution == [threads |-> <<>>, seed |-> -1, chunks |-> <<>>]

NoSplit == [threads |-> <<>>, seed |-> 0, chunks |-> <<>>, before |-> NoRedistribution]

NoCall ==
    [name |-> "none", args |-> <<>>, log |-> <<>>, exc |-> "none", repeat |-> FALSE]

W_CPUSET == <<"c", "p", "u", "s", "e", "t">>
W_CPU == <<"c", "p", "u">>
W_PLUS_CPUSET == <<"+">> \o W_CPUSET
W_THREADED == <<"t", "h", "r", "e", "a", "d", "e", "d">>
W_DOMAIN == <<"d", "o", "m", "a", "i", "n">>
W_DOMAIN_INVALID == W_DOMAIN \o <<" ", "i", "n", "v", "a", "l", "i", "d">>
W_VNUMA == <<"v", "n", "u", "m", "a">>

(***************************************************************************)
(* utils.getCoreList: the first ncores CPUs of numanode in lscpu's order,  *)
(* RuntimeError (ok = FALSE) when the lines run out first.                 *)
(***************************************************************************)
RECURSIVE ScanLscpu(_, _, _, _)
ScanLscpu(lines, cpuList, ncores, numanode) ==
    IF lines = <<>> THEN [ok |-> FALSE, cores |-> cpuList]
    ELSE LET line == lines[1]
         IN  IF line.comment \/ line.node # numanode
             THEN ScanLscpu(Tail(lines), cpuList, ncores, numanode)
             ELSE LET found == Append(cpuList, line.cpu)
                  IN  IF Len(found) = ncores
                      THEN [ok |-> TRUE, cores |-> found]
                      ELSE ScanLscpu(Tail(lines), found, ncores, numanode)

getCoreList(ncores, numanode) == ScanLscpu(lscpu, <<>>, ncores, numanode)

CoreListStr(cores) == Join(MapStr(cores), <<",">>)

getCoreListStr(ncores, numanode) == CoreListStr(getCoreList(ncores, numanode).cores)

(***************************************************************************)
(* The kernel's side of a control file.                                    *)
(***************************************************************************)
Node(f, dir) ==
    IF dir = ROOT THEN [type |-> f.type, cpus |-> f.cpus] ELSE f.dirs[dir]

\* A cpu list as the kernel prints it: increasing, runs as first-last.
RECURSIVE RangeParts(_)
RangeParts(sorted) ==
    IF sorted = <<>> THEN <<>>
    ELSE LET n == CHOOSE k \in 1..Len(sorted) :
                      /\ \A j \in 1..k : sorted[j] = sorted[1] + j - 1
                      /\ (k = Len(sorted) \/ sorted[k + 1] # sorted[1] + k)
             part == IF n = 1 THEN IntToStr(sorted[1])
                     ELSE IntToStr(sorted[1]) \o <<"-">> \o IntToStr(sorted[n])
         IN  <<part>> \o RangeParts(SubSeq(sorted, n + 1, Len(sorted)))

KernelCpuList(cpus) == Join(RangeParts(SortedSeq(cpus)), <<",">>)

\* A cpu list as the kernel reads it: numbers and first-last ranges, comma separated.
CpuPartSet(part) ==
    LET ends == SplitOn(part, "-")
    IN  IF Len(ends) = 2
        THEN ParseInt(ends[1]).val .. ParseInt(ends[2]).val
        ELSE {ParseInt(part).val}

ParseCpuList(content) ==
    LET t == Strip(content)
    IN  IF t = <<>> THEN {}
        ELSE LET parts == SplitOn(t, ",")
             IN  UNION {CpuPartSet(parts[i]) : i \in 1..Len(parts)}

\* The controllers of the list that are switched on, in the list's order.
RECURSIVE Enabled(_, _)
Enabled(controllers, on) ==
    IF controllers = <<>> THEN <<>>
    ELSE (IF controllers[1] \in on THEN <<controllers[1]>> ELSE <<>>)
             \o Enabled(Tail(controllers), on)

\* What read() returns for a control file.
KernelRead(f, dir, file) ==
    CASE file = "cgroup.controllers" ->
            Join(f.controllers, <<" ">>) \o <<"\n">>
      [] file = "cgroup.subtree_control" ->
            Join(Enabled(f.controllers, f.subtree), <<" ">>) \o <<"\n">>
      [] file = "cgroup.type" -> Node(f, dir).type \o <<"\n">>
      [] file = "cpuset.cpus" -> KernelCpuList(Node(f, dir).cpus) \o <<"\n">>

\* What a write of content does to the node.
KernelWrite(f, dir, file, content) ==
    CASE file = "cgroup.subtree_control" ->
            LET toks == SplitWS(content)
                on == {Tail(toks[i]) : i \in {j \in 1..Len(toks) : toks[j][1] = "+"}}
                off == {Tail(toks[i]) : i \in {j \in 1..Len(toks) : toks[j][1] = "-"}}
            IN  [f EXCEPT !.subtree = (@ \cup on) \ off]
      [] file = "cgroup.type" ->
            IF dir = ROOT THEN [f EXCEPT !.type = Strip(content)]
            ELSE [f EXCEPT !.dirs[dir].type = Strip(content)]
      [] file = "cpuset.cpus" ->
            IF dir = ROOT THEN [f EXCEPT !.cpus = ParseCpuList(content)]
            ELSE [f EXCEPT !.dirs[dir].cpus = ParseCpuList(content)]

(***************************************************************************)
(* ThreadedCG.ensureCGContent.  m is the running call: the tree, the       *)
(* mutations so far, the exception raised (if any).  ok is the return      *)
(* value isEnforced.                                                       *)
(***************************************************************************)
WriteOp(dir, file, content) ==
    [op |-> "write", dir |-> dir, file |-> file, content |-> content]

DirOp(op, dir) == [op |-> op, dir |-> dir, file |-> "", content |-> <<>>]

\* The two callbacks __init__ passes: lambda s: 'cpuset' in s.split() and
\* lambda s: s == enforcedContent.
HasToken(want) == [kind |-> "token", want |-> want]

Exactly(want) == [kind |-> "exact", want |-> want]

\* A check that finds every content as expected.
checkCallBackAlwaysPasses(check, s) == TRUE

checkCallBack(check, s) ==
    IF check.kind = "token" THEN check.want \in SeqToSet(SplitWS(s))
    ELSE s = check.want

\* A version that writes the content whenever one is given.
ensureCGContentAlwaysWrites(m, dir, file, check, enforce, enforcedContent) ==
    IF enforce
    THEN [m |-> [m EXCEPT
                   !.fs = KernelWrite(@, dir, file, enforcedContent),
                   !.log = Append(@, WriteOp(dir, file, enforcedContent))],
          ok |-> TRUE]
    ELSE [m |-> m, ok |-> checkCallBack(check, KernelRead(m.fs, dir, file))]

ensureCGContent(m, dir, file, check, enforce, enforcedContent) ==
    IF checkCallBack(check, KernelRead(m.fs, dir, file))
    THEN [m |-> m, ok |-> TRUE]
    ELSE IF enforce
         THEN [m |-> [m EXCEPT
                        !.fs = KernelWrite(@, dir, file, enforcedContent),
                        !.log = Append(@, WriteOp(dir, file, enforcedContent))],
               ok |-> TRUE]
         ELSE [m |-> m, ok |-> FALSE]

ensureCGExactContent(m, dir, file, enforcedContent) ==
    ensureCGContent(m, dir, file, Exactly(enforcedContent), TRUE, enforcedContent).m

(***************************************************************************)
(* ThreadedCG.__init__, statement by statement.                            *)
(***************************************************************************)
Zfill(s, width) == IF Len(s) < width THEN [i \in 1..(width - Len(s)) |-> "0"] \o s ELSE s

SubcgName(subcgPrefix, i) == subcgPrefix \o <<".">> \o Zfill(IntToStr(i), 2)

SubcgNames(subcgPrefix, numcgroups) ==
    [i \in 1..numcgroups |-> SubcgName(subcgPrefix, i - 1)]

AddDir(dirs, name, rec) ==
    [n \in (DOMAIN dirs) \cup {name} |-> IF n = name THEN rec ELSE dirs[n]]

DelDir(dirs, name) == [n \in (DOMAIN dirs) \ {name} |-> dirs[n]]

NoDirs == [n \in {} |-> [type |-> W_DOMAIN, cpus |-> {}]]

AbsentTree ==
    [exists |-> FALSE, owner |-> "root", controllers |-> <<>>, subtree |-> {},
     type |-> W_DOMAIN, cpus |-> {}, dirs |-> NoDirs]

\* sudomkdir: the new node belongs to root and offers the controllers its
\* parent delegates.
SudoMkdirRoot(m) ==
    IF m.fs.exists THEN m
    ELSE [m EXCEPT !.fs = [AbsentTree EXCEPT !.exists = TRUE,
                                             !.controllers = hostCtl],
                   !.log = Append(@, DirOp("sudomkdir", ROOT))]

SudoChownRoot(m) ==
    IF m.fs.owner = "user" THEN m
    ELSE [m EXCEPT !.fs.owner = "user", !.log = Append(@, DirOp("sudochown", ROOT))]

\* subcgPath.mkdir(): a child of a threaded node starts as "domain invalid"
\* with no cpus of its own.
MkdirLeaf(m, name) ==
    IF name \in DOMAIN m.fs.dirs THEN m
    ELSE [m EXCEPT !.fs.dirs = AddDir(@, name, [type |-> W_DOMAIN_INVALID, cpus |-> {}]),
                   !.log = Append(@, DirOp("mkdir", name))]

\* coreList[first : first + n]
Slice(coreList, first, n) ==
    SubSeq(coreList, first + 1,
           IF first + n < Len(coreList) THEN first + n ELSE Len(coreList))

\* A slice that starts at the leaf's index instead of at its first core.
SubcgCoreListFromIndex(coreList, cgId, ncoresPercg) ==
    Slice(coreList, cgId, ncoresPercg)

SubcgCoreList(coreList, cgId, ncoresPercg) ==
    Slice(coreList, cgId * ncoresPercg, ncoresPercg)

Ok(m) == m.exc = "none"

\* The tests on Ok follow the statements in order: a statement runs once the
\* one before it has returned.
RECURSIVE EnsureLeaves(_, _, _, _, _)
EnsureLeaves(m, names, cgId, ncoresPercg, coreList) ==
    IF ~Ok(m) \/ cgId >= Len(names) THEN m
    ELSE LET name == names[cgId + 1]
             m1 == MkdirLeaf(m, name)
         IN  IF ~Ok(m1) THEN m1
             ELSE LET m2 == ensureCGExactContent(m1, name, "cgroup.type", W_THREADED)
                  IN  IF ~Ok(m2) THEN m2
                      ELSE EnsureLeaves(
                               ensureCGExactContent(m2, name, "cpuset.cpus",
                                   CoreListStr(SubcgCoreList(coreList, cgId, ncoresPercg))),
                               names, cgId + 1, ncoresPercg, coreList)

RECURSIVE SetToSeq(_)
SetToSeq(S) ==
    IF S = {} THEN <<>>
    ELSE LET x == CHOOSE y \in S : TRUE IN <<x>> \o SetToSeq(S \ {x})

RECURSIVE RmdirAll(_, _)
RmdirAll(m, names) ==
    IF names = <<>> THEN m
    ELSE RmdirAll([m EXCEPT !.fs.dirs = DelDir(@, names[1]),
                            !.log = Append(@, DirOp("rmdir", names[1]))],
                  Tail(names))

\* A removal loop that removes nothing.
RemoveStaleNothing(m, subcgPrefix, names, removedBefore) == m

\* glob(prefix.*) in the directory's own order; rmdir of a cgroup that still
\* holds threads fails (OSError) and ends the loop: removedBefore are the
\* empty stale leaves the loop met before the busy one.
Busy(name) == \E t \in DOMAIN tidCg : tidCg[t] = name

RemoveStale(m, subcgPrefix, names, removedBefore) ==
    LET stale == {n \in DOMAIN m.fs.dirs :
                      StartsWith(n, subcgPrefix \o <<".">>) /\ n \notin SeqToSet(names)}
        busy == {n \in stale : Busy(n)}
    IN  IF busy = {} THEN RmdirAll(m, SetToSeq(stale))
        ELSE [RmdirAll(m, SetToSeq(removedBefore \cap (stale \ busy)))
                 EXCEPT !.exc = "OSError"]

AfterCoreList(m, a, subcgPrefix, removedBefore) ==
    LET numcgroups == a.ncores \div a.ncoresPercg
        core == getCoreList(a.ncores, a.numanode)
        names == SubcgNames(subcgPrefix, numcgroups)
        m5 == ensureCGExactContent(m, ROOT, "cpuset.cpus",
                                   getCoreListStr(a.ncores, a.numanode))
    IN  IF ~core.ok THEN [m EXCEPT !.exc = "RuntimeError"]
        ELSE IF ~Ok(m5) THEN m5
        ELSE LET m6 == EnsureLeaves(m5, names, 0, a.ncoresPercg, core.cores)
             IN  IF ~Ok(m6) THEN m6
                 ELSE LET m7 == RemoveStale(m6, subcgPrefix, names, removedBefore)
                      IN  IF ~Ok(m7) THEN m7
                          ELSE [m7 EXCEPT !.obj = [numcgroups |-> numcgroups,
                                                   subcgNames |-> names]]

\* assert self.numcgroups < 100: two characters hold the sequence number.
LeafLimit == 100

\* A test that lets the limit itself through.
NumcgroupsFitInclusive(numcgroups) == numcgroups <= LeafLimit

NumcgroupsFit(numcgroups) == numcgroups < LeafLimit

ThreadedCG_init(f, a, subcgPrefix, removedBefore) ==
    LET m0 == [fs |-> f, log |-> <<>>, exc |-> "none", obj |-> NoCG]
        m1 == SudoMkdirRoot(m0)
        m2 == SudoChownRoot(m1)
        ctl == ensureCGContent(m2, ROOT, "cgroup.controllers",
                               HasToken(W_CPUSET), FALSE, <<>>)
        m3 == ensureCGExactContent(ctl.m, ROOT, "cgroup.subtree_control", W_PLUS_CPUSET)
        m4 == ensureCGExactContent(m3, ROOT, "cgroup.type", W_THREADED)
    IN  IF a.ncores % a.ncoresPercg # 0 THEN [m0 EXCEPT !.exc = "AssertionError"]
        ELSE IF ~NumcgroupsFit(a.ncores \div a.ncoresPercg)
             THEN [m0 EXCEPT !.exc = "AssertionError"]
        ELSE IF ~Ok(m1) THEN m1
        ELSE IF ~Ok(m2) THEN m2
        ELSE IF ~ctl.ok THEN [m2 EXCEPT !.exc = "NotImplementedError"]
        ELSE IF ~Ok(m3) THEN m3
        ELSE IF ~Ok(m4) THEN m4
        ELSE AfterCoreList(m4, a, subcgPrefix, removedBefore)

(***************************************************************************)
(* A caller constructing ThreadedCG(cgname, ncoresPercg, ncores, numanode).*)
(***************************************************************************)
EnsureArgs ==
    [ncoresPercg : 1..MaxCores, ncores : (1..MaxCores) \cup {LeafLimit},
     numanode : {0, 1}]

PrefixDirs(f) == {n \in DOMAIN f.dirs : StartsWith(n, W_VNUMA \o <<".">>)}

Ensure(a, removedBefore) ==
    LET m == ThreadedCG_init(fs, a, W_VNUMA, removedBefore)
    IN  /\ trial.on => trial.pc = "setup"
        /\ fs' = m.fs
        /\ cgobj' = IF m.exc = "none" THEN m.obj ELSE cgobj
        /\ lastCall' = [name |-> "ensure", args |-> a, log |-> m.log, exc |-> m.exc,
                        repeat |-> /\ lastCall.name = "ensure"
                                   /\ lastCall.exc = "none"
                                   /\ lastCall.args = a]
        /\ UNCHANGED <<lscpu, hostCtl, tidCg, lastSplit>>
        /\ UNCHANGED notCG
        /\ Sched("ensure")

\* The leaves a failing removal loop may have removed before it failed.
RemovedChoices ==
    IF \E n \in PrefixDirs(fs) : Busy(n)
    THEN SUBSET {n \in PrefixDirs(fs) : ~Busy(n)}
    ELSE {{}}

\* The control files of a tree that is there and belongs to the user, each
\* with the check and the content __init__ gives it, and with the content the
\* file reads at the moment.
EnsureContentArgs(f) ==
    IF ~f.exists \/ f.owner # "user" THEN {}
    ELSE LET dirs == {ROOT} \cup DOMAIN f.dirs
         IN  {[dir |-> ROOT, file |-> "cgroup.controllers", check |-> HasToken(W_CPUSET),
               enforce |-> FALSE, content |-> <<>>]}
             \cup UNION {{[dir |-> d, file |-> "cgroup.type", check |-> Exactly(c),
                           enforce |-> TRUE, content |-> c] :
                              c \in {W_THREADED, KernelRead(f, d, "cgroup.type")}} :
                         d \in dirs}
             \cup UNION {{[dir |-> d, file |-> "cpuset.cpus", check |-> Exactly(c),
                           enforce |-> TRUE, content |-> c] :
                              c \in {CoreListStr(SortedSeq(Node(f, d).cpus)),
                                     KernelRead(f, d, "cpuset.cpus")}} :
                         d \in dirs}
             \cup {[dir |-> ROOT, file |-> "cgroup.subtree_control", check |-> Exactly(c),
                    enforce |-> TRUE, content |-> c] :
                       c \in (IF W_CPUSET \in SeqToSet(f.controllers)
                              THEN {W_PLUS_CPUSET} ELSE {})
                             \cup {KernelRead(f, ROOT, "cgroup.subtree_control")}}

\* ThreadedCG.ensureCGContent(path, checkCallBack, enforcedContent), called
\* on one control file of the tree.
EnsureCGContentCall(a) ==
    LET m0 == [fs |-> fs, log |-> <<>>, exc |-> "none", obj |-> NoCG]
        r == ensureCGContent(m0, a.dir, a.file, a.check, a.enforce, a.content)
    IN  /\ ~trial.on
        /\ fs' = r.m.fs
        /\ lastCall' = [name |-> "ensureCGContent", args |-> a, log |-> r.m.log,
                        exc |-> "none", repeat |-> FALSE]
        /\ UNCHANGED <<lscpu, hostCtl, tidCg, cgobj, lastSplit>>
        /\ UNCHANGED notCG
        /\ UNCHANGED trial

NextEnsure ==
    \/ \E a \in EnsureArgs : \E rb \in RemovedChoices : Ensure(a, rb)
    \/ \E a \in EnsureContentArgs(fs) : EnsureCGContentCall(a)

Comment == [comment |-> TRUE, node |-> 0, cpu |-> 0]

Cpu(node, cpu) == [comment |-> FALSE, node |-> node, cpu |-> cpu]

\* Two hosts: two nodes with their CPUs in a row, and two nodes interleaved.
TopoRow ==
    <<Comment, Cpu(0, 0), Cpu(0, 1), Cpu(0, 2), Cpu(0, 3), Cpu(0, 4), Cpu(1, 5), Cpu(1, 6)>>

TopoInterleaved ==
    <<Comment, Cpu(0, 0), Cpu(1, 1), Cpu(0, 2), Cpu(1, 3), Cpu(0, 4), Cpu(1, 5),
      Cpu(0, 6), Cpu(1, 7), Cpu(0, 8), Cpu(1, 9)>>

Topologies == {TopoRow, TopoInterleaved}

\* A tree left by an earlier run as root: one leaf of the wrong shape and a
\* leaf beyond any present target.
OldTree ==
    [exists |-> TRUE, owner |-> "root", controllers |-> <<W_CPUSET, W_CPU>>,
     subtree |-> {}, type |-> W_DOMAIN, cpus |-> {0, 1, 2, 3, 4, 5, 6, 7},
     dirs |-> AddDir(AddDir(NoDirs, SubcgName(W_VNUMA, 0),
                            [type |-> W_THREADED, cpus |-> {0, 1, 2, 3}]),
                     SubcgName(W_VNUMA, 7),
                     [type |-> W_THREADED, cpus |-> {4, 5, 6, 7}])]

NoTids == [t \in {} |-> ROOT]

InitEnsure ==
    /\ lscpu \in Topologies
    /\ \/ fs = AbsentTree /\ hostCtl \in {<<W_CPUSET, W_CPU>>, <<W_CPU>>}
       \/ fs = OldTree /\ hostCtl = <<W_CPUSET, W_CPU>>
    /\ tidCg = NoTids
    /\ cgobj = NoCG
    /\ lastCall = NoCall
    /\ lastSplit = NoSplit



(***************************************************************************)
(* ThreadedCG.trackPID and ThreadedCG.randTIDCluster.                      *)
(***************************************************************************)
OUTSIDE == <<"/">>

\* The workload's main thread, whose id is the pid, and its thread ids.
MainTid == 12

Tids == MainTid..(MainTid + MaxTids - 1)

TidsIn(dir) == {t \in DOMAIN tidCg : tidCg[t] = dir}

\* cgroup.threads of a node as read(): its thread ids, one per line.
KernelThreads(dir) ==
    LET lines == MapStr(SortedSeq(TidsIn(dir)))
    IN  IF lines = <<>> THEN <<>> ELSE Join(lines, <<"\n">>) \o <<"\n">>

\* rng.shuffle(threads) for np.random.default_rng(seed): a permutation that
\* the seed and the length determine.
RECURSIVE Shuffle(_, _)
Shuffle(threads, seed) ==
    IF threads = <<>> THEN <<>>
    ELSE LET k == (seed % Len(threads)) + 1
             rest == SubSeq(threads, 1, k - 1) \o SubSeq(threads, k + 1, Len(threads))
         IN  <<threads[k]>> \o Shuffle(rest, seed \div Len(threads))

\* np.array_split(ary, n): the first len % n sections hold len // n + 1
\* elements, the others len // n.
SectionStart(len, n, i) ==
    LET each == len \div n
        extras == len % n
    IN  i * each + (IF i < extras THEN i ELSE extras)

\* A split that gives every section len // n elements and drops the rest.
ArraySplitFloor(ary, n) ==
    [i \in 1..n |-> SubSeq(ary, (i - 1) * (Len(ary) \div n) + 1,
                           i * (Len(ary) \div n))]

ArraySplit(ary, n) ==
    [i \in 1..n |-> SubSeq(ary, SectionStart(Len(ary), n, i - 1) + 1,
                           SectionStart(Len(ary), n, i))]

\* subf.write(str(thread).encode()) on <leaf>/cgroup.threads: the kernel moves
\* that thread into the leaf.
RECURSIVE WriteThreads(_, _, _)
WriteThreads(where, name, subthreads) ==
    IF subthreads = <<>> THEN where
    ELSE WriteThreads([where EXCEPT ![ParseInt(IntToStr(subthreads[1])).val] = name],
                      name, Tail(subthreads))

\* A redistribution that moves no thread.
DistributeNothing(where, names, split) == where

\* zip(self.subcgNames, threads_split): pairs up to the shorter of the two.
RECURSIVE Distribute(_, _, _)
Distribute(where, names, split) ==
    IF names = <<>> \/ split = <<>> THEN where
    ELSE Distribute(WriteThreads(where, names[1], split[1]), Tail(names), Tail(split))

ReadThreads(dir) ==
    LET lines == SplitLines(KernelThreads(dir))
    IN  [i \in 1..Len(lines) |-> ParseInt(lines[i]).val]

TrackPID(p) ==
    /\ fs.exists
    /\ p \in DOMAIN tidCg
    /\ tidCg' = [t \in DOMAIN tidCg |-> ROOT]
    /\ lastCall' = [name |-> "trackPID", args |-> <<p>>,
                    log |-> <<WriteOp(ROOT, "cgroup.procs", IntToStr(p))>>,
                    exc |-> "none", repeat |-> FALSE]
    /\ UNCHANGED <<lscpu, hostCtl, fs, cgobj, lastSplit>>
    /\ UNCHANGED notCG
    /\ Sched("trackPID")

\* The writes of the zip loop, in the order it makes them.
RECURSIVE SubthreadWrites(_, _)
SubthreadWrites(name, subthreads) ==
    IF subthreads = <<>> THEN <<>>
    ELSE <<WriteOp(name, "cgroup.threads", IntToStr(subthreads[1]))>>
         \o SubthreadWrites(name, Tail(subthreads))

RECURSIVE DistributeWrites(_, _)
DistributeWrites(names, split) ==
    IF names = <<>> \/ split = <<>> THEN <<>>
    ELSE SubthreadWrites(names[1], split[1])
         \o DistributeWrites(Tail(names), Tail(split))

\* print(f"Redistributing {threads.size} threads among {self.numcgroups}
\* threaded cgroups, with seed {seed}"): the literal parts and the formatted
\* fields.
PrintSeed(nthreads, numcgroups, seed) ==
    [op |-> "print",
     text |-> <<"Redistributing ", IntToStr(nthreads), " threads among ",
                IntToStr(numcgroups), " threaded cgroups, with seed ",
                IntToStr(seed)>>]

\* A call that draws its own seed whatever the caller passed.
SeedChoicesAlwaysDrawn(seedArg) == 0..MaxSeed

\* seed = -1 stands for None: random.randint draws one.
SeedChoices(seedArg) == IF seedArg = -1 THEN 0..MaxSeed ELSE {seedArg}

\* The threads of the workload that may end while randTIDCluster runs, and
\* those it may start: the main thread stays, and a thread is started by one
\* that is still in the root.
Endings == SUBSET (SeqToSet(ReadThreads(ROOT)) \ {MainTid})

Startings ==
    IF ReadThreads(ROOT) = <<>> THEN {{}}
    ELSE {{}} \cup {{t} : t \in Tids \ DOMAIN tidCg}

\* The threads of a set that are gone, and the new ones, which begin in the
\* root.
Workload(where, exited, born) ==
    [t \in ((DOMAIN where) \ exited) \cup born |->
        IF t \in born THEN ROOT ELSE where[t]]

\* subf.write of the id of a thread that is gone: the kernel refuses it with
\* ESRCH, which ends the loops.  The sections as far as the loops write
\* them: what stands before the first such thread.
RECURSIVE WrittenBefore(_, _)
WrittenBefore(split, exited) ==
    IF split = <<>> THEN <<>>
    ELSE LET section == split[1]
             gone == {i \in 1..Len(section) : section[i] \in exited}
         IN  IF gone = {} THEN <<section>> \o WrittenBefore(Tail(split), exited)
             ELSE LET k == CHOOSE i \in gone : \A j \in gone : i <= j
                  IN  <<SubSeq(section, 1, k - 1)>>
                      \o [i \in 1..(Len(split) - 1) |-> <<>>]

\* The write that was refused, if there is one.
RECURSIVE RefusedWrite(_, _, _)
RefusedWrite(names, split, exited) ==
    IF names = <<>> \/ split = <<>> THEN <<>>
    ELSE LET section == split[1]
             gone == {i \in 1..Len(section) : section[i] \in exited}
         IN  IF gone = {} THEN RefusedWrite(Tail(names), Tail(split), exited)
             ELSE LET k == CHOOSE i \in gone : \A j \in gone : i <= j
                  IN  <<WriteOp(names[1], "cgroup.threads", IntToStr(section[k]))>>

\* exited are the threads that end and born those that start between the
\* read of the root's cgroup.threads and the writes to the leaves.
RandTIDCluster(seedArg, exited, born) ==
    /\ cgobj # NoCG
    /\ \E seed \in SeedChoices(seedArg) :
          LET threads == Shuffle(ReadThreads(ROOT), seed)
              threads_split == ArraySplit(threads, cgobj.numcgroups)
              written == WrittenBefore(threads_split, exited)
              refused == RefusedWrite(cgobj.subcgNames, threads_split, exited)
          IN  /\ tidCg' = Distribute(Workload(tidCg, exited, born), cgobj.subcgNames,
                                     written)
              /\ lastSplit' = [threads |-> ReadThreads(ROOT), seed |-> seed,
                               chunks |-> threads_split,
                               before |-> IF lastSplit = NoSplit
                                          THEN NoRedistribution
                                          ELSE [threads |-> lastSplit.threads,
                                                seed |-> lastSplit.seed,
                                                chunks |-> lastSplit.chunks]]
              /\ lastCall' = [name |-> "randTIDCluster", args |-> <<seedArg>>,
                              log |-> <<PrintSeed(Len(threads), cgobj.numcgroups, seed)>>
                                      \o DistributeWrites(cgobj.subcgNames, written)
                                      \o refused,
                              exc |-> IF refused = <<>> THEN "none"
                                      ELSE "ProcessLookupError",
                              repeat |-> FALSE]
    /\ UNCHANGED <<lscpu, hostCtl, fs, cgobj>>
    /\ UNCHANGED notCG
    /\ Sched("randTIDCluster")

\* The workload: a running thread starts another one, which begins in its
\* creator's cgroup.
SpawnThread(creator, tid) ==
    /\ creator \in DOMAIN tidCg
    /\ tid \in Tids \ DOMAIN tidCg
    /\ tidCg' = [t \in (DOMAIN tidCg) \cup {tid} |->
                    IF t = tid THEN tidCg[creator] ELSE tidCg[t]]
    /\ UNCHANGED <<lscpu, hostCtl, fs, cgobj, lastCall, lastSplit>>
    /\ UNCHANGED notCG
    /\ Sched("spawn")

NextTids ==
    \/ TrackPID(MainTid)
    \/ \E seedArg \in -1..MaxSeed : RandTIDCluster(seedArg, {}, {})
    \/ \E creator \in Tids, tid \in Tids : SpawnThread(creator, tid)

\* The same calls on a workload whose threads end and start while
\* randTIDCluster runs.
NextRace ==
    \/ TrackPID(MainTid)
    \/ \E seedArg \in 0..1 : \E exited \in Endings : \E born \in Startings :
          RandTIDCluster(seedArg, exited, born)
    \/ \E creator \in Tids, tid \in Tids : SpawnThread(creator, tid)

\* A partition set up on a fresh host, and a workload just launched.
InitTids ==
    /\ lscpu = TopoInterleaved
    /\ hostCtl = <<W_CPUSET, W_CPU>>
    /\ tidCg = [t \in {MainTid} |-> OUTSIDE]
    /\ \E a \in {x \in EnsureArgs : x.ncores = MaxCores /\ x.numanode = 0} :
          LET m == ThreadedCG_init(AbsentTree, a, W_VNUMA, {})
          IN  /\ Ok(m)
              /\ fs = m.fs
              /\ cgobj = m.obj
    /\ lastCall = NoCall
    /\ lastSplit = NoSplit




(***************************************************************************)
(* ParsecRun: one workload handle.                                         *)
(***************************************************************************)
\* timedelta(seconds=10) and time.sleep(0.5), in tenths of a second.
PidFileTimeout == 100
PidFileBackoff == 5

\* stableThreshold: int = 3
StableThreshold == 3

\* pollIntervalSec: float = 1.0, in tenths of a second.
PollInterval == 10

\* The record of a call: whether it entered getPid's loop, whether int()
\* succeeded, what os.kill did, whether it counted threads, what it returned.
NoRun == [name |-> "none", exc |-> "none", looped |-> FALSE, parsed |-> FALSE,
          elapsed |-> 0, probe |-> "none", polled |-> FALSE, ret |-> NoPid]

RunCall(name) == [name |-> name, exc |-> "running", looped |-> FALSE,
                  parsed |-> FALSE, elapsed |-> 0, probe |-> "none",
                  polled |-> FALSE, ret |-> NoPid]

\* os.kill(pid, 0): it returns, or the process exists and may not be
\* signalled, or there is no such process.
ProbeOutcomes == {"ok", "PermissionError", "ProcessLookupError"}

\* A probe whose exception is swallowed.
ProbeRaisesNever(outcome) == FALSE

\* try: os.kill(pid, 0) except Exception as e: raise e
ProbeRaises(outcome) == outcome # "ok"

\* self.pidfile.read(): the text from the file object's offset to the end.
PidFileRead == SubSeq(pidfile.content, pidfile.pos + 1, Len(pidfile.content))

\* The child (parsecmgmt) stores a pid, or only a newline when it has none.
ChildTexts == {IntToStr(MainTid) \o <<"\n">>, <<"\n">>}

\* What the file holds once the child's next write() has added n more
\* characters of its text.
WrittenSoFar(text, content, n) == SubSeq(text, 1, Len(content) + n)

\* The child writes the next n characters of its text into the file: the
\* whole text at once, or a part of it.
ChildWrites(text, n) ==
    /\ Len(pidfile.content) + n <= Len(text)
    /\ pidfile.content = SubSeq(text, 1, Len(pidfile.content))
    /\ pidfile' = [pidfile EXCEPT !.content = WrittenSoFar(text, pidfile.content, n)]
    /\ UNCHANGED <<handle, pid, tidStabilized, rpc, now, deadline, w, obs, lastRun>>
    /\ UNCHANGED notRun
    /\ Sched("child")

\* A loop test that asks only for a steady count.
WaitCondSteadyOnly(nThStayStable, nTh) == nThStayStable < StableThreshold

\* while nThStayStable < stableThreshold or nTh < self.ncores * self.oversub
WaitCond(nThStayStable, nTh) ==
    nThStayStable < StableThreshold \/ nTh < handle.ncores * handle.oversub

\* A loop body that keeps the counter when the count changes.
PollKeepCount(cur, nThNew) ==
    IF cur.nTh = nThNew
    THEN [cur EXCEPT !.nThStayStable = @ + 1]
    ELSE [cur EXCEPT !.nTh = nThNew]

\* The loop body's update of (nThStayStable, nTh) for a poll that saw nThNew.
Poll(cur, nThNew) ==
    IF cur.nTh = nThNew
    THEN [cur EXCEPT !.nThStayStable = @ + 1]
    ELSE [nThStayStable |-> 0, nTh |-> nThNew]

\* A start of getPid that does not look at self.pid.
GetPidEnterNoCache(call) ==
    /\ rpc' = IF call.name = "wait" THEN "w_getpid" ELSE "getpid"
    /\ now' = 0
    /\ deadline' = PidFileTimeout
    /\ lastRun' = [call EXCEPT !.looped = TRUE]

\* The start of getPid, for the call `call` (getPid itself, or
\* waitUntilTIDStabilized, which goes on once it has the pid).
GetPidEnter(call) ==
    IF pid # NoPid
    THEN /\ rpc' = IF call.name = "wait" THEN "w_begin" ELSE "idle"
         /\ lastRun' = IF call.name = "wait" THEN call
                       ELSE [call EXCEPT !.exc = "none", !.ret = pid]
         /\ UNCHANGED <<now, deadline>>
    ELSE /\ rpc' = IF call.name = "wait" THEN "w_getpid" ELSE "getpid"
         /\ now' = 0
         /\ deadline' = PidFileTimeout
         /\ lastRun' = [call EXCEPT !.looped = TRUE]

GetPidCall ==
    /\ rpc = "idle"
    /\ GetPidEnter(RunCall("getPid"))
    /\ UNCHANGED <<handle, pidfile, pid, tidStabilized, w, obs>>
    /\ UNCHANGED notRun
    /\ Sched("getPid")

\* A loop test without the deadline.
LoopGoesOnNoDeadline(t, limit) == TRUE

\* while datetime.now() < waitPIDFileReadTimeout
LoopGoesOn(t, limit) == t < limit

\* One turn of the while loop of getPid, or what follows the loop.
GetPidStep(probe) ==
    /\ rpc \in {"getpid", "w_getpid"}
    /\ IF LoopGoesOn(now, deadline)
       THEN LET parsed == ParseInt(PidFileRead)
            IN  /\ pidfile' = [pidfile EXCEPT !.pos = Len(pidfile.content)]
                /\ IF ~parsed.ok
                   THEN \* except: time.sleep(0.5); continue
                        /\ now' = now + PidFileBackoff
                        /\ UNCHANGED <<pid, rpc, lastRun>>
                   ELSE \* break, then os.kill(pid, 0)
                        /\ now' = 0
                        /\ IF ~ProbeRaises(probe)
                           THEN /\ pid' = parsed.val
                                /\ rpc' = IF rpc = "w_getpid" THEN "w_begin" ELSE "idle"
                                /\ lastRun' =
                                     IF rpc = "w_getpid"
                                     THEN [lastRun EXCEPT !.parsed = TRUE,
                                                          !.probe = probe]
                                     ELSE [lastRun EXCEPT !.parsed = TRUE,
                                                          !.probe = probe,
                                                          !.elapsed = now,
                                                          !.exc = "none",
                                                          !.ret = parsed.val]
                           ELSE /\ rpc' = "idle"
                                /\ lastRun' = [lastRun EXCEPT
                                                 !.parsed = TRUE, !.probe = probe,
                                                 !.elapsed = now, !.exc = probe]
                                /\ UNCHANGED pid
       ELSE \* pid is None: raise NotImplementedError("pidfile time out")
            /\ rpc' = "idle"
            /\ now' = 0
            /\ lastRun' = [lastRun EXCEPT !.elapsed = now,
                                          !.exc = "NotImplementedError"]
            /\ UNCHANGED <<pidfile, pid>>
    /\ UNCHANGED <<handle, tidStabilized, deadline, w, obs>>
    /\ UNCHANGED notRun
    /\ Sched("getPidStep")

\* A start of waitUntilTIDStabilized that does not look at the flag.
WaitCallAlwaysPolls ==
    /\ rpc = "idle"
    /\ GetPidEnter(RunCall("wait"))
    /\ UNCHANGED <<handle, pidfile, pid, tidStabilized, w, obs>>
    /\ UNCHANGED notRun
    /\ Sched("wait")

WaitCall ==
    /\ rpc = "idle"
    /\ IF tidStabilized
       THEN /\ lastRun' = [RunCall("wait") EXCEPT !.exc = "none"]
            /\ UNCHANGED <<rpc, now, deadline>>
       ELSE GetPidEnter(RunCall("wait"))
    /\ UNCHANGED <<handle, pidfile, pid, tidStabilized, w, obs>>
    /\ UNCHANGED notRun
    /\ Sched("wait")

\* time.sleep(pollIntervalSec) of the loop body: it stands in the else branch.
Sleeps(cur, nThNew) == IF cur.nTh = nThNew THEN 0 ELSE PollInterval

\* The loop test, and after the loop self.tidStabilized = True.  t is the
\* time the loop has slept so far.
WaitLoopOrReturn(cur, t) ==
    IF WaitCond(cur.nThStayStable, cur.nTh)
    THEN /\ rpc' = "w_loop"
         /\ now' = t
         /\ lastRun' = [lastRun EXCEPT !.polled = TRUE]
         /\ UNCHANGED tidStabilized
    ELSE /\ rpc' = "idle"
         /\ now' = 0
         /\ tidStabilized' = TRUE
         /\ lastRun' = [lastRun EXCEPT !.polled = TRUE, !.exc = "none",
                                       !.elapsed = t]

\* nThStayStable = 0; nTh = len(getTIDofPID(pid)), then the first loop test.
WaitBegin(nTh) ==
    /\ rpc = "w_begin"
    /\ w' = [nThStayStable |-> 0, nTh |-> nTh]
    /\ obs' = <<nTh>>
    /\ WaitLoopOrReturn([nThStayStable |-> 0, nTh |-> nTh], 0)
    /\ UNCHANGED <<handle, pidfile, pid, deadline>>
    /\ UNCHANGED notRun
    /\ Sched("poll")

\* One turn of the while loop of waitUntilTIDStabilized, then the loop test.
WaitPoll(nThNew) ==
    /\ rpc = "w_loop"
    /\ Len(obs) <= MaxPolls
    /\ w' = Poll(w, nThNew)
    /\ obs' = Append(obs, nThNew)
    /\ WaitLoopOrReturn(Poll(w, nThNew), now + Sleeps(w, nThNew))
    /\ UNCHANGED <<handle, pidfile, pid, deadline>>
    /\ UNCHANGED notRun
    /\ Sched("poll")

\* The same two steps of waitUntilTIDStabilized without the record of the
\* counts seen and of the time slept, for runs in which the loop may go on for any number of turns.
\* nThStayStable is only ever compared with stableThreshold: turns that would
\* take it beyond MaxPolls are left out.
WaitBeginUnrecorded(nTh) ==
    /\ rpc = "w_begin"
    /\ w' = [nThStayStable |-> 0, nTh |-> nTh]
    /\ WaitLoopOrReturn([nThStayStable |-> 0, nTh |-> nTh], 0)
    /\ UNCHANGED <<handle, pidfile, pid, deadline, obs>>
    /\ UNCHANGED notRun
    /\ Sched("poll")

WaitPollUnrecorded(nThNew) ==
    /\ rpc = "w_loop"
    /\ Poll(w, nThNew).nThStayStable <= MaxPolls
    /\ w' = Poll(w, nThNew)
    /\ WaitLoopOrReturn(Poll(w, nThNew), 0)
    /\ UNCHANGED <<handle, pidfile, pid, deadline, obs>>
    /\ UNCHANGED notRun
    /\ Sched("poll")

NextRun ==
    \/ \E text \in ChildTexts : ChildWrites(text, Len(text))
    \/ GetPidCall
    \/ \E probe \in ProbeOutcomes : GetPidStep(probe)
    \/ WaitCall
    \/ \E n \in 0..MaxThreads : WaitBegin(n)
    \/ \E n \in 0..MaxThreads : WaitPoll(n)

\* The handshake alone: a child that may write its text in several pieces,
\* and getPid.
NextHandshake ==
    \/ \E text \in ChildTexts : \E n \in 1..Len(text) : ChildWrites(text, n)
    \/ GetPidCall
    \/ \E probe \in ProbeOutcomes : GetPidStep(probe)

\* ParsecRun.__init__ followed by runDetached.
InitRun ==
    /\ handle \in [ncores : 1..2, oversub : 1..2]
    /\ pidfile = [content |-> <<>>, pos |-> 0]
    /\ pid = NoPid
    /\ tidStabilized = FALSE
    /\ rpc = "idle"
    /\ now = 0
    /\ deadline = 0
    /\ w = [nThStayStable |-> 0, nTh |-> 0]
    /\ obs = <<>>
    /\ lastRun = NoRun

\* No workload handle.
IdleRun ==
    /\ handle = [ncores |-> 1, oversub |-> 1]
    /\ pidfile = [content |-> <<>>, pos |-> 0]
    /\ pid = NoPid
    /\ tidStabilized = FALSE
    /\ rpc = "idle"
    /\ now = 0
    /\ deadline = 0
    /\ w = [nThStayStable |-> 0, nTh |-> 0]
    /\ obs = <<>>
    /\ lastRun = NoRun

\* No cgroup partition.
IdleCG ==
    /\ lscpu = TopoRow
    /\ hostCtl = <<W_CPUSET, W_CPU>>
    /\ fs = AbsentTree
    /\ tidCg = NoTids
    /\ cgobj = NoCG
    /\ lastCall = NoCall
    /\ lastSplit = NoSplit

(***************************************************************************)
(* csvFields.py: the declared fields and the deductive chain.  A row is a  *)
(* function from keys to values; a value is tagged with its Python type:   *)
(* "str" (characters), "int", "float" (in hundredths), "list" (of lines),  *)
(* "time" (a timestamp).                                                   *)
(***************************************************************************)
ALLGNUTIMEFIELDS ==
    <<"elapsed", "usertime", "systime", "cpupercent", "volswitch", "invswitch",
      "minpgfaults">>

RAWDATACSVFIELDS == <<"ncores", "nthreads", "cgcfg", "ntrial">> \o ALLGNUTIMEFIELDS

Str(chars) == [t |-> "str", v |-> chars]

Min(a, b) == IF a <= b THEN a ELSE b

\* {f.key: v for f, v in zip(fields, values)}
ZipRow(fields, values) ==
    LET n == Min(Len(fields), Len(values))
    IN  [k \in {fields[i] : i \in 1..n} |->
            Str(values[CHOOSE i \in 1..n : fields[i] = k])]

\* float(text) for plain decimals with at most two fractional digits, in
\* hundredths; anything else is a ValueError here.
ParseFloat(text) ==
    LET s == Strip(text)
        parts == SplitOn(s, ".")
        whole == parts[1]
        frac == IF Len(parts) = 2 THEN parts[2] ELSE <<>>
    IN  IF /\ Len(parts) \in {1, 2}
           /\ Len(whole) + Len(frac) > 0
           /\ whole = <<>> \/ AllDigits(whole)
           /\ frac = <<>> \/ AllDigits(frac)
           /\ Len(frac) <= 2
        THEN [ok |-> TRUE,
              val |-> 100 * DigitsVal(whole)
                      + (IF Len(frac) = 0 THEN 0
                         ELSE IF Len(frac) = 1 THEN 10 * DigitsVal(frac)
                         ELSE DigitsVal(frac))]
        ELSE [ok |-> FALSE, val |-> 0]

W_COMMAND == <<"C", "o", "m", "m", "a", "n", "d">>

\* A step of the chain yields the row and the exception it raised, if any.
Row(row) == [row |-> row, exc |-> "none"]

Raise(row, exc) == [row |-> row, exc |-> exc]

Put(row, key, val) == (key :> val) @@ row

LastOf(s) == s[Len(s)]

DeductiveNote(row) ==
    IF "ncores" \notin DOMAIN row THEN Raise(row, "KeyError")
    ELSE IF row["ncores"].t # "str" THEN Raise(row, "AttributeError")
    ELSE IF ~StartsWith(row["ncores"].v, W_COMMAND) THEN Row(row)
    ELSE LET composedFields == SplitLines(row["ncores"].v)
         IN  Row(Put(Put(row, "ncores", Str(LastOf(composedFields))),
                     "note",
                     [t |-> "list",
                      v |-> SubSeq(composedFields, 1, Len(composedFields) - 1)]))

DeductiveOversub(row) ==
    IF {"nthreads", "ncores"} \ DOMAIN row # {} THEN Raise(row, "KeyError")
    ELSE LET nthreads == ParseInt(row["nthreads"].v)
             ncores == ParseInt(row["ncores"].v)
         IN  IF ~nthreads.ok \/ ~ncores.ok THEN Raise(row, "ValueError")
             ELSE IF ncores.val = 0 THEN Raise(row, "ZeroDivisionError")
             ELSE Row(Put(row, "oversub",
                          [t |-> "int", v |-> nthreads.val \div ncores.val]))

\* A timestamp field that is set on every pass.
DeductiveCurTimeStampAlways(row, time) ==
    Row(Put(row, "timestamp", [t |-> "time", v |-> time]))

\* `time` is datetime.now() of the call.
DeductiveCurTimeStampAt(row, time) ==
    IF "timestamp" \in DOMAIN row THEN Row(row)
    ELSE Row(Put(row, "timestamp", [t |-> "time", v |-> time]))

DeductiveCurTimeStamp(row) == DeductiveCurTimeStampAt(row, 0)

DeductiveCPUTime(row) ==
    IF "cputime" \in DOMAIN row THEN Row(row)
    ELSE IF {"usertime", "systime"} \ DOMAIN row # {} THEN Raise(row, "KeyError")
    ELSE LET usertime == ParseFloat(row["usertime"].v)
             systime == ParseFloat(row["systime"].v)
         IN  IF ~usertime.ok \/ ~systime.ok THEN Raise(row, "ValueError")
             ELSE Row(Put(row, "cputime",
                          [t |-> "float", v |-> usertime.val + systime.val]))

\* A chain that computes the oversubscription before it looks for a message.
DeductiveFieldsOversubFirst(row, time) ==
    LET r1 == DeductiveOversub(row)
        r2 == DeductiveNote(r1.row)
        r3 == DeductiveCurTimeStampAt(r2.row, time)
        r4 == DeductiveCPUTime(r3.row)
    IN  IF r1.exc # "none" THEN r1
        ELSE IF r2.exc # "none" THEN r2
        ELSE IF r3.exc # "none" THEN r3
        ELSE r4

\* for field in DeductiveFields: field.callback(record_dict)
DeductiveFieldsAt(row, time) ==
    LET r1 == DeductiveNote(row)
        r2 == DeductiveOversub(r1.row)
        r3 == DeductiveCurTimeStampAt(r2.row, time)
        r4 == DeductiveCPUTime(r3.row)
    IN  IF r1.exc # "none" THEN r1
        ELSE IF r2.exc # "none" THEN r2
        ELSE IF r3.exc # "none" THEN r3
        ELSE r4

DeductiveFields(row) == DeductiveFieldsAt(row, 0)


(***************************************************************************)
(* thread-sweep.py: launchTest and sweep.                                  *)
(***************************************************************************)
\* itertools.product(args.cores, args.oversub)
Product(cores, oversubs) ==
    [k \in 1..(Len(cores) * Len(oversubs)) |->
        <<cores[((k - 1) \div Len(oversubs)) + 1],
          oversubs[((k - 1) % Len(oversubs)) + 1]>>]

AllConfs(a) == a.cherrypick \o Product(a.cores, a.oversub)

TotalTrials(a) == Len(a.packages) * Len(AllConfs(a)) * a.ntrials

\* The n-th iteration (from 0) of the loops over packages, allConfs, trials.
TrialOf(a, n) ==
    LET conf == AllConfs(a)[((n \div a.ntrials) % Len(AllConfs(a))) + 1]
    IN  [package |-> a.packages[(n \div (a.ntrials * Len(AllConfs(a)))) + 1],
         ncores |-> conf[1], oversub |-> conf[2], trialID |-> n % a.ntrials]

\* non_timer_prefix and the format string given to /usr/bin/time -f
NonTimerPrefix(t) ==
    <<IntToStr(t.ncores), IntToStr(t.ncores * t.oversub), IntToStr(t.trialID)>>

W_EXITED ==
    <<"C", "o", "m", "m", "a", "n", "d", " ", "e", "x", "i", "t", "e", "d",
      " ", "w", "i", "t", "h", " ", "n", "o", "n", "-", "z", "e", "r", "o",
      " ", "s", "t", "a", "t", "u", "s", " ", "1">>

\* What /usr/bin/time measured, as it prints %e %U %S %P %w %c %R.
Measurements ==
    {<<<<"1", ".", "2", "3">>, <<"0", ".", "5">>, <<"0", ".", "1">>,
       <<"9", "8", "%">>, <<"3">>, <<"1">>, <<"1", "2">>>>,
     <<<<"0", ".", "0", "0">>, <<"0", ".", "0", "0">>, <<"0", ".", "0", "0">>,
       <<"?", "%">>, <<"0">>, <<"0">>, <<"8", "0">>>>}

\* The file /usr/bin/time -o leaves: a line about the exit status when it is
\* not zero, then the format string with its directives filled in.
GNUTimeOutput(prefix, measured, status) ==
    (IF status = "nonzero" THEN W_EXITED \o <<"\n">> ELSE <<>>)
    \o Join(prefix \o measured, <<",">>) \o <<"\n">>

NoFile == [exists |-> FALSE, content |-> <<>>]

\* What a sweep before this one left in args.time_temp: the path has a fixed
\* default and no code removes or empties the file.
LeftOver ==
    [exists |-> TRUE,
     content |-> GNUTimeOutput(NonTimerPrefix([package |-> "dedup", ncores |-> 8,
                                               oversub |-> 1, trialID |-> 0]),
                               CHOOSE m \in Measurements : m[7] = <<"1", "2">>,
                               "zero")]

NoRecord == [text |-> <<>>, row |-> <<>>, exc |-> "none"]

\* The end of one iteration of the innermost loop of sweep.
NextTrial ==
    spc' = IF trialNo = TotalTrials(args) THEN "done" ELSE "loop"

\* [f.key for f in ALLCSVFIELDS]
ALLCSVFIELDS == RAWDATACSVFIELDS \o <<"note", "oversub", "timestamp", "cputime">>

\* csvWriter.writeheader()
HeaderLine == [kind |-> "header", fields |-> ALLCSVFIELDS]

\* csvWriter.writerow(record_dict): the values in the order of the header, a
\* field the record lacks left empty.
RowLine(row) ==
    [kind |-> "row",
     fields |-> [i \in 1..Len(ALLCSVFIELDS) |->
                    IF ALLCSVFIELDS[i] \in DOMAIN row THEN row[ALLCSVFIELDS[i]]
                    ELSE Str(<<>>)]]

\* What a sweep before this one left in args.output.
OldLine == [kind |-> "old", fields |-> <<>>]

\* csvfile.flush(), and the flush of close()
Flush(f) == [f EXCEPT !.disk = @ \o f.buffer, !.buffer = <<>>]

\* with open(args.output, args.openargs) as csvfile: the file is closed when
\* sweep returns and when an exception leaves the block.
WithExit(pc, f) ==
    IF pc \in {"done", "aborted"} THEN [Flush(f) EXCEPT !.closed = TRUE] ELSE f

\* A temporary file that takes the place of the first one made.
NamedTemporaryFileReused(made) == 1

\* tempfile.NamedTemporaryFile: a file that did not exist before; `made` is
\* how many this process has made so far.
NamedTemporaryFile(made) == made + 1

\* A wait that returns whether or not the child has ended.
WaitReturnsAtOnce(child) == TRUE

\* parsecmgmt.wait() returns once the child process has terminated.
WaitReturns(child) == child = "exited"

\* launchTest up to subprocess.Popen; a dry run goes straight to
\* pidfile.close() and returns.
LaunchTest ==
    /\ spc = "loop"
    /\ trialNo < TotalTrials(args)
    /\ trialNo' = trialNo + 1
    /\ spc' = IF ~args.dryrun THEN "started"
              ELSE IF trialNo + 1 = TotalTrials(args) THEN "done" ELSE "loop"
    /\ LET pidfile_name == NamedTemporaryFile(Len(launches))
       IN  launches' = Append(launches,
                              [pidfile |-> [name |-> pidfile_name, open |-> ~args.dryrun],
                               pidArg |-> pidfile_name,
                               timed |-> args.profiler = "none",
                               child |-> IF args.dryrun THEN "none" ELSE "running",
                               read |-> {},
                               profiler |-> "none",
                               wrote |-> FALSE,
                               record |-> "none"])
    /\ csvfile' = WithExit(spc', csvfile)
    /\ UNCHANGED <<args, timeTemp, csvRows, lastRecord, swExc>>
    /\ UNCHANGED notSweep

\* if args.profiler: read the pid file, probe the pid, run the profiler.
Profile(pidtext, probe) ==
    /\ spc = "started"
    /\ args.profiler # "none"
    /\ LET parsed == ParseInt(pidtext)
       IN  IF ~parsed.ok
           THEN spc' = "aborted" /\ swExc' = "ValueError"
           ELSE IF probe = "ProcessLookupError"
           THEN spc' = "aborted" /\ swExc' = "ProcessLookupError"
           ELSE spc' = "profiled" /\ UNCHANGED swExc
    /\ launches' = [launches EXCEPT
                       ![trialNo].read = @ \cup {launches[trialNo].pidfile.name},
                       ![trialNo].profiler =
                           IF spc' = "profiled" THEN args.profiler ELSE @]
    /\ csvfile' = WithExit(spc', csvfile)
    /\ UNCHANGED <<args, trialNo, timeTemp, csvRows, lastRecord>>
    /\ UNCHANGED notSweep

\* The workload ends; without a profiler it ran under /usr/bin/time.
WorkloadExit(measured, status) ==
    /\ spc = IF args.profiler # "none" THEN "profiled" ELSE "started"
    /\ spc' = "exited"
    /\ launches' = [launches EXCEPT
                       ![trialNo].child = "exited",
                       ![trialNo].wrote = args.profiler = "none" /\ status # "notrun"]
    /\ UNCHANGED csvfile
    /\ timeTemp' =
         IF args.profiler # "none" \/ status = "notrun" THEN timeTemp
         ELSE [exists |-> TRUE,
               content |-> GNUTimeOutput(NonTimerPrefix(TrialOf(args, trialNo - 1)),
                                         measured, status)]
    /\ UNCHANGED <<args, trialNo, csvRows, lastRecord, swExc>>
    /\ UNCHANGED notSweep

\* parsecmgmt.wait() returns, launchTest closes the pid file and returns,
\* and sweep makes the row, writes it and calls rowCallback.
Collect ==
    /\ spc \in {"started", "profiled", "exited"}
    /\ spc = "started" => args.profiler = "none"
    /\ WaitReturns(launches[trialNo].child)
    /\ LET closed == [launches EXCEPT ![trialNo].pidfile.open = FALSE]
       IN  IF args.profiler # "none"
           THEN /\ NextTrial
                /\ launches' = closed
                /\ csvfile' = WithExit(spc', csvfile)
                /\ UNCHANGED <<csvRows, lastRecord, swExc>>
           ELSE IF ~timeTemp.exists
           THEN /\ spc' = "aborted"
                /\ swExc' = "FileNotFoundError"
                /\ launches' = closed
                /\ csvfile' = WithExit(spc', csvfile)
                /\ UNCHANGED <<csvRows, lastRecord>>
           ELSE LET text == Strip(timeTemp.content)
                    time_records == SplitOn(text, ",")
                    r == DeductiveFields(ZipRow(RAWDATACSVFIELDS, time_records))
                IN  /\ lastRecord' = [text |-> text, row |-> r.row, exc |-> r.exc]
                    /\ IF r.exc # "none"
                       THEN /\ spc' = "aborted"
                            /\ swExc' = r.exc
                            /\ launches' = [closed EXCEPT ![trialNo].record = "read"]
                            /\ csvfile' = WithExit(spc', csvfile)
                            /\ UNCHANGED csvRows
                       ELSE /\ csvRows' = Append(csvRows, r.row)
                            /\ NextTrial
                            /\ launches' = [closed EXCEPT ![trialNo].record = "emitted"]
                            /\ csvfile' =
                                 WithExit(spc',
                                          Flush([csvfile EXCEPT
                                                    !.buffer = Append(@, RowLine(r.row))]))
                            /\ UNCHANGED swExc
    /\ UNCHANGED <<args, trialNo, timeTemp>>
    /\ UNCHANGED notSweep

NextSweep ==
    \/ LaunchTest
    \/ \E pidtext \in {<<>>, <<"1", "2", "\n">>} :
         \E probe \in {"ok", "PermissionError", "ProcessLookupError"} :
            Profile(pidtext, probe)
    \/ \E measured \in Measurements :
         \E status \in {"zero", "nonzero", "notrun"} :
            WorkloadExit(measured, status)
    \/ Collect

\* buildParser and the start of sweep.
InitSweep ==
    /\ args \in [profiler : {"none", "perfstat", "perfsched"}, dryrun : BOOLEAN,
                 ntrials : 1..MaxTrials, packages : {<<"dedup">>},
                 cores : {<<4>>, <<2, 4>>}, oversub : {<<2>>},
                 cherrypick : {<<>>, <<<<1, 4>>>>}, openargs : {"a", "w"}]
    /\ spc = "loop"
    /\ trialNo = 0
    /\ timeTemp \in {NoFile, LeftOver}
    /\ csvRows = <<>>
    /\ lastRecord = NoRecord
    /\ swExc = "none"
    /\ launches = <<>>
    /\ \E old \in {<<>>, <<OldLine>>} :
          LET start == IF args.openargs = "w" THEN <<>> ELSE old
          IN  csvfile = [start |-> start, disk |-> start,
                         buffer |-> <<HeaderLine>>, closed |-> FALSE]

\* No sweep.
IdleSweep ==
    /\ args = [profiler |-> "none", dryrun |-> TRUE, ntrials |-> 1,
               packages |-> <<"dedup">>, cores |-> <<4>>, oversub |-> <<2>>,
               cherrypick |-> <<>>, openargs |-> "a"]
    /\ spc = "loop"
    /\ trialNo = 0
    /\ timeTemp = NoFile
    /\ csvRows = <<>>
    /\ lastRecord = NoRecord
    /\ swExc = "none"
    /\ launches = <<>>
    /\ csvfile = [start |-> <<>>, disk |-> <<>>, buffer |-> <<>>, closed |-> TRUE]

(***************************************************************************)
(* profiler.py: the Profiler variants, run and callback.                   *)
(***************************************************************************)
\* No profiler object.
NoProf ==
    [variant |-> "none", pc |-> "none", process |-> "none", outputFile |-> "none",
     sigs |-> <<>>]

\* PROFILER_NAMEMAP.keys()
ALL_PROFILER == {"perfstat", "perfsched", "runqlat-bcc", "dbg"}

\* The variants whose run calls self.parsec.waitUntilTIDStabilized().
WaitsForStable(variant) == variant \in {"perfsched", "dbg"}

\* A wait that returns whether or not the process has ended.
ProcessWaitReturnsAtOnce(process) == TRUE

\* self.process.wait() returns once the process has terminated.
ProcessWait(process) == process = "exited"

\* Profiler.run up to the start of the companion process.  The calls of
\* self.parsec.getPid() and self.parsec.waitUntilTIDStabilized() it makes are
\* the ParsecRun calls above: run goes on when they have returned.
\* perf (subprocess.run) keeps run waiting; runqlat (subprocess.Popen, after
\* open(outputPath, "w")) does not; dbg starts nothing.
ProfilerRun ==
    /\ prof.pc = "new"
    /\ rpc = "idle"
    /\ pid # NoPid
    /\ WaitsForStable(prof.variant) => tidStabilized
    /\ prof' = CASE prof.variant = "runqlat-bcc" ->
                      [prof EXCEPT !.outputFile = "open", !.process = "running",
                                   !.pc = "returned"]
                 [] prof.variant = "dbg" -> [prof EXCEPT !.pc = "returned"]
                 [] OTHER -> [prof EXCEPT !.process = "running", !.pc = "run"]
    /\ UNCHANGED runVars
    /\ UNCHANGED notProf

\* The companion process ends: perf when the process it follows has ended,
\* runqlat when it is interrupted or fails.
CompanionExits ==
    /\ prof.process = "running"
    /\ prof' = [prof EXCEPT !.process = "exited"]
    /\ UNCHANGED runVars
    /\ UNCHANGED notProf

\* subprocess.run returns, sudochown(perfdataPath), run returns.
RunReturns ==
    /\ prof.pc = "run"
    /\ ProcessWait(prof.process)
    /\ prof' = [prof EXCEPT !.pc = "returned"]
    /\ UNCHANGED runVars
    /\ UNCHANGED notProf

\* sudokill(pid, signal): the signal is sent to the process.
SudoKill(p, signal) == [p EXCEPT !.sigs = Append(@, signal)]

\* Profiler.callback of the base class, and of dbg, which only prints.
Callback ==
    /\ prof.pc = "returned"
    /\ prof.variant # "runqlat-bcc"
    /\ prof' = [prof EXCEPT !.pc = "stopped"]
    /\ UNCHANGED runVars
    /\ UNCHANGED notProf

\* PerfBCCRunqlatProfiler.callback: sudokill(self.process.pid, "SIGINT")
CallbackKill ==
    /\ prof.pc = "returned"
    /\ prof.variant = "runqlat-bcc"
    /\ prof' = [SudoKill(prof, "SIGINT") EXCEPT !.pc = "cb_wait"]
    /\ UNCHANGED runVars
    /\ UNCHANGED notProf

\* self.process.wait()
CallbackWait ==
    /\ prof.pc = "cb_wait"
    /\ ProcessWait(prof.process)
    /\ prof' = [prof EXCEPT !.pc = "cb_close"]
    /\ UNCHANGED runVars
    /\ UNCHANGED notProf

\* self.outputFile.close(), and callback returns.
CallbackClose ==
    /\ prof.pc = "cb_close"
    /\ prof' = [prof EXCEPT !.outputFile = "closed", !.pc = "stopped"]
    /\ UNCHANGED runVars
    /\ UNCHANGED notProf

NextProf ==
    \/ \E text \in ChildTexts : ChildWrites(text, Len(text))
    \/ GetPidCall
    \/ \E probe \in ProbeOutcomes : GetPidStep(probe)
    \/ WaitCall
    \/ \E n \in 0..MaxThreads : WaitBeginUnrecorded(n)
    \/ \E n \in 0..MaxThreads : WaitPollUnrecorded(n)
    \/ ProfilerRun
    \/ CompanionExits
    \/ RunReturns
    \/ Callback
    \/ CallbackKill
    \/ CallbackWait
    \/ CallbackClose

\* PROFILER_NAMEMAP[args.profiler](args, parsec) for a workload just launched.
InitProf == prof \in {[NoProf EXCEPT !.variant = v, !.pc = "new"] : v \in ALL_PROFILER}

(***************************************************************************)
(* Calls of utils.getCoreList and utils.getCoreListCompressed, and the     *)
(* loop of csv_postprocess.py over one record.                             *)
(***************************************************************************)
NoFcall == [name |-> "none", args |-> <<>>, ret |-> <<>>, exc |-> "none", passes |-> 0]

\* How many times the chain is applied to one record.
MaxPasses == 3

\* A host whose nodes own pairs of neighbouring CPUs.
TopoPairs ==
    <<Comment, Comment, Cpu(0, 0), Cpu(0, 1), Cpu(1, 2), Cpu(1, 3), Cpu(0, 4),
      Cpu(0, 5), Cpu(1, 6)>>

\* A loop that takes every CPU into the range before it.
MergesAlways(last, cpu) == TRUE

\* if compressedList[-1][-1] + 1 == cpu
Merges(last, cpu) == last[2] + 1 = cpu

\* for cpu in cpuList[1:]
RECURSIVE Compress(_, _)
Compress(compressedList, rest) ==
    IF rest = <<>> THEN compressedList
    ELSE LET last == compressedList[Len(compressedList)]
             cpu == rest[1]
         IN  IF Merges(last, cpu)
             THEN Compress([compressedList EXCEPT ![Len(compressedList)] = <<last[1], cpu>>],
                           Tail(rest))
             ELSE Compress(Append(compressedList, <<cpu, cpu>>), Tail(rest))

\* The exception of getCoreList goes through; cpuList[0] of an empty list
\* would be an IndexError.
getCoreListCompressed(ncores, numanode) ==
    LET r == getCoreList(ncores, numanode)
    IN  IF ~r.ok THEN [exc |-> "RuntimeError", ranges |-> <<>>]
        ELSE IF r.cores = <<>> THEN [exc |-> "IndexError", ranges |-> <<>>]
        ELSE [exc |-> "none",
              ranges |-> Compress(<<<<r.cores[1], r.cores[1]>>>>, Tail(r.cores))]

CallGetCoreList(ncores, numanode) ==
    /\ LET r == getCoreList(ncores, numanode)
       IN  fcall' = [name |-> "getCoreList", args |-> <<ncores, numanode>>,
                     ret |-> IF r.ok THEN r.cores ELSE <<>>,
                     exc |-> IF r.ok THEN "none" ELSE "RuntimeError", passes |-> 0]
    /\ UNCHANGED lscpu
    /\ UNCHANGED notFun

CallGetCoreListCompressed(ncores, numanode) ==
    /\ LET r == getCoreListCompressed(ncores, numanode)
       IN  fcall' = [name |-> "getCoreListCompressed", args |-> <<ncores, numanode>>,
                     ret |-> r.ranges, exc |-> r.exc, passes |-> 0]
    /\ UNCHANGED lscpu
    /\ UNCHANGED notFun

\* ParsecRun.setTimeAsPrefix: non_timer_prefix
TimeAsPrefix(ncores, oversub, nCoresPercg, trialID) ==
    <<IntToStr(ncores), IntToStr(ncores * oversub), IntToStr(nCoresPercg),
      IntToStr(trialID)>>

\* The records a sweep makes of what /usr/bin/time wrote, with the prefix of
\* ParsecRun and with the prefix of thread-sweep.py.
RawRecords ==
    {ZipRow(RAWDATACSVFIELDS, SplitOn(Strip(GNUTimeOutput(prefix, measured, status)), ",")) :
        prefix \in {TimeAsPrefix(4, 2, 0, 0),
                    NonTimerPrefix([ncores |-> 4, oversub |-> 2, trialID |-> 0])},
        measured \in Measurements,
        status \in {"zero", "nonzero"}}

\* str(value), as csv.DictWriter writes a value.
RECURSIVE ListStr(_)
ListStr(lines) ==
    IF lines = <<>> THEN <<>>
    ELSE <<"'">> \o lines[1] \o <<"'">>
         \o (IF Len(lines) > 1 THEN <<",", " ">> ELSE <<>>) \o ListStr(Tail(lines))

FloatStr(hundredths) ==
    IntToStr(hundredths \div 100) \o <<".">>
    \o (IF hundredths % 10 = 0 THEN IntToStr((hundredths % 100) \div 10)
        ELSE IntToStr((hundredths % 100) \div 10) \o IntToStr(hundredths % 10))

ValueStr(val) ==
    CASE val.t = "str" -> val.v
      [] val.t = "int" -> IntToStr(val.v)
      [] val.t = "float" -> FloatStr(val.v)
      [] val.t = "list" -> <<"[">> \o ListStr(val.v) \o <<"]">>
      [] OTHER -> <<"T">> \o IntToStr(val.v)

\* outwriter.writerow(row) and csv.DictReader on the file it made: every
\* declared field as text, a field the record lacks being empty.
WrittenAndRead(row) ==
    [k \in SeqToSet(ALLCSVFIELDS) |->
        IF k \in DOMAIN row THEN Str(ValueStr(row[k])) ELSE Str(<<>>)]

\* A record handed to the chain for the first time.
ReadRow(row) ==
    /\ fcall' = [name |-> "row", args |-> <<>>, ret |-> row, exc |-> "none", passes |-> 0]
    /\ UNCHANGED lscpu
    /\ UNCHANGED notFun

\* for field in DeductiveFields: field.callback(row)
ApplyChain ==
    /\ fcall.name \in {"row", "chain", "reread"}
    /\ fcall.exc = "none"
    /\ fcall.passes < MaxPasses
    /\ LET r == DeductiveFieldsAt(fcall.ret, fcall.passes + 1)
       IN  fcall' = [name |-> "chain", args |-> <<fcall.ret>>, ret |-> r.row,
                     exc |-> r.exc, passes |-> fcall.passes + 1]
    /\ UNCHANGED lscpu
    /\ UNCHANGED notFun

\* The record is written to a CSV file, and csv_postprocess.py reads it back.
Reread ==
    /\ fcall.name = "chain"
    /\ fcall.exc = "none"
    /\ fcall' = [fcall EXCEPT !.name = "reread", !.args = <<>>,
                              !.ret = WrittenAndRead(fcall.ret)]
    /\ UNCHANGED lscpu
    /\ UNCHANGED notFun

\* The moments at which an artifact is named: hour, minute and second of one
\* day.
Moments == {<<9, 5, 0>>, <<9, 5, 1>>, <<23, 59, 59>>}

TwoDigits(n) == IF n < 10 THEN <<"0">> \o IntToStr(n) ELSE IntToStr(n)

\* datetime.now().isoformat(timespec='seconds')
IsoFormat(moment) ==
    <<"2", "0", "2", "4", "-", "0", "1", "-", "0", "1", "T">>
    \o TwoDigits(moment[1]) \o <<":">> \o TwoDigits(moment[2]) \o <<":">>
    \o TwoDigits(moment[3])

\* str.replace(old, new) for one-character strings
Replace(s, old, new) == [i \in 1..Len(s) |-> IF s[i] = old THEN new ELSE s[i]]

\* utils.getNowTSEscaped(): the ISO timestamp with its colons escaped, as
\* thread-sweep.py writes it.
getNowTSEscaped(moment) == Replace(IsoFormat(moment), ":", "_")

\* The packages a sweep is given: one of the parsec suite and one of the
\* splash2x suite.
W_VIPS == <<"v", "i", "p", "s">>
W_SPLASH2X_FFT == <<"s", "p", "l", "a", "s", "h", "2", "x", ".", "f", "f", "t">>
Packages == {W_VIPS, W_SPLASH2X_FFT}

W_PERF_DATA == <<"p", "e", "r", "f", ".", "d", "a", "t", "a">>
W_RUNQLAT_TXT == <<"r", "u", "n", "q", "l", "a", "t", ".", "t", "x", "t">>

\* ParsecRun.getIdentifier(timestamped=True)
getIdentifier(package, ncores, oversub, nCoresPercg, moment) ==
    package \o <<".", "C">> \o IntToStr(ncores) \o <<".", "O">> \o IntToStr(oversub)
    \o <<".", "C", "G">> \o IntToStr(nCoresPercg)
    \o <<".">> \o getNowTSEscaped(moment)

\* perfdataPath and outputPath of the profilers of profiler.py
PerfdataPath(package, ncores, oversub, nCoresPercg, moment, ext) ==
    /\ fcall' = [name |-> "perfdataPath",
                 args |-> <<package, ncores, oversub, nCoresPercg, moment, ext>>,
                 ret |-> getIdentifier(package, ncores, oversub, nCoresPercg, moment)
                         \o <<".">> \o ext,
                 exc |-> "none", passes |-> 0]
    /\ UNCHANGED lscpu
    /\ UNCHANGED notFun

\* perfdataPath of the profilers of thread-sweep.py, which know no cgroup size
SweepPerfdataPath(package, ncores, oversub, moment) ==
    /\ fcall' = [name |-> "perfdataPath",
                 args |-> <<package, ncores, oversub, 0, moment, W_PERF_DATA>>,
                 ret |-> package \o <<".", "C">> \o IntToStr(ncores) \o <<".", "O">>
                         \o IntToStr(oversub) \o <<".">>
                         \o Replace(IsoFormat(moment), ":", "_") \o <<".">> \o W_PERF_DATA,
                 exc |-> "none", passes |-> 0]
    /\ UNCHANGED lscpu
    /\ UNCHANGED notFun

\* The longest run of digits a text begins with: [0-9]+ followed by anything.
RECURSIVE LeadingDigits(_)
LeadingDigits(s) ==
    IF s # <<>> /\ IsDigit(s[1]) THEN <<s[1]>> \o LeadingDigits(Tail(s)) ELSE <<>>

\* re.match(traceRegex, tracepath.name): the package is what stands before the
\* first dot, ".C" and digits and ".O" and digits have to follow at once.
\* [ok |-> FALSE] stands for the AssertionError.
TraceMatch(name) ==
    LET parts == SplitOn(name, ".")
        matched == /\ Len(parts) >= 3
                   /\ parts[1] # <<>>
                   /\ StartsWith(parts[2], <<"C">>)
                   /\ AllDigits(Tail(parts[2]))
                   /\ StartsWith(parts[3], <<"O">>)
                   /\ LeadingDigits(Tail(parts[3])) # <<>>
    IN  IF matched
        THEN [ok |-> TRUE, package |-> parts[1], ncores |-> Tail(parts[2]),
              oversub |-> LeadingDigits(Tail(parts[3]))]
        ELSE [ok |-> FALSE, package |-> <<>>, ncores |-> <<>>, oversub |-> <<>>]

\* PerfTrace(tracepath) for the artifact just named
PerfTrace ==
    /\ fcall.name = "perfdataPath"
    /\ LET m == TraceMatch(fcall.ret)
       IN  fcall' = [name |-> "PerfTrace", args |-> fcall.args,
                     ret |-> <<fcall.ret, m.package, m.ncores, m.oversub>>,
                     exc |-> IF m.ok THEN "none" ELSE "AssertionError", passes |-> 0]
    /\ UNCHANGED lscpu
    /\ UNCHANGED notFun

NextFun ==
    \/ \E ncores \in 0..(MaxCores + 2), numanode \in 0..2 :
          CallGetCoreList(ncores, numanode)
    \/ \E ncores \in 0..(MaxCores + 2), numanode \in 0..2 :
          CallGetCoreListCompressed(ncores, numanode)
    \/ \E row \in RawRecords : ReadRow(row)
    \/ ApplyChain
    \/ Reread
    \/ \E package \in Packages, ncores \in 1..MaxCores, oversub \in 1..2,
          nCoresPercg \in 0..2, moment \in Moments, ext \in {W_PERF_DATA, W_RUNQLAT_TXT} :
          PerfdataPath(package, ncores, oversub, nCoresPercg, moment, ext)
    \/ \E package \in Packages, ncores \in 1..MaxCores, oversub \in 1..2, moment \in Moments :
          SweepPerfdataPath(package, ncores, oversub, moment)
    \/ PerfTrace

InitFun ==
    /\ lscpu \in Topologies \cup {TopoPairs}
    /\ hostCtl = <<W_CPUSET, W_CPU>>
    /\ fs = AbsentTree
    /\ tidCg = NoTids
    /\ cgobj = NoCG
    /\ lastCall = NoCall
    /\ lastSplit = NoSplit
    /\ fcall = NoFcall

(***************************************************************************)
(* Specifications.                                                         *)
(***************************************************************************)
IdleTrial == trial = NoTrial

\* No profiler object and no function call.
IdleProf == prof = NoProf

IdleFun == fcall = NoFcall

StartEnsure == InitEnsure /\ IdleRun /\ IdleSweep /\ IdleTrial /\ IdleProf /\ IdleFun

SpecEnsure == StartEnsure /\ [][NextEnsure]_vars

StartTids == InitTids /\ IdleRun /\ IdleSweep /\ IdleTrial /\ IdleProf /\ IdleFun

SpecTids == StartTids /\ [][NextTids]_vars

SpecRace == StartTids /\ [][NextRace]_vars

StartRun == IdleCG /\ InitRun /\ IdleSweep /\ IdleTrial /\ IdleProf /\ IdleFun

SpecRun == StartRun /\ [][NextRun]_vars

SpecHandshake == StartRun /\ [][NextHandshake]_vars

\* The handle with a control thread that keeps running: once it is inside
\* getPid or waitUntilTIDStabilized it takes its next step.
ControlThread ==
    \/ \E probe \in ProbeOutcomes : GetPidStep(probe)
    \/ \E n \in 0..MaxThreads : WaitBeginUnrecorded(n)
    \/ \E n \in 0..MaxThreads : WaitPollUnrecorded(n)

NextRunFair ==
    \/ \E text \in ChildTexts : ChildWrites(text, Len(text))
    \/ GetPidCall
    \/ WaitCall
    \/ ControlThread

SpecRunFair == StartRun /\ [][NextRunFair]_vars /\ WF_vars(ControlThread)

StartSweep == IdleCG /\ IdleRun /\ InitSweep /\ IdleTrial /\ IdleProf /\ IdleFun

SpecSweep == StartSweep /\ [][NextSweep]_vars

StartProf == IdleCG /\ InitRun /\ IdleSweep /\ IdleTrial /\ InitProf /\ IdleFun

SpecProf == StartProf /\ [][NextProf]_vars

StartFun == InitFun /\ IdleRun /\ IdleSweep /\ IdleTrial /\ IdleProf

SpecFun == StartFun /\ [][NextFun]_vars

(***************************************************************************)
(* One trial with partitioning active, driven step by step (see Sched).    *)
(***************************************************************************)
\* ParsecRun.runDetached: the workload process exists from here on, outside
\* the partition.
RunDetached ==
    /\ tidCg = NoTids
    /\ tidCg' = [t \in {MainTid} |-> OUTSIDE]
    /\ UNCHANGED <<lscpu, hostCtl, fs, cgobj, lastCall, lastSplit>>
    /\ UNCHANGED notCG
    /\ Sched("runDetached")

\* Profiler.run: it asks the handle for the pid and attaches to the process.
ProfilerStart ==
    /\ rpc = "idle"
    /\ pid # NoPid
    /\ UNCHANGED <<cgVars, runVars, sweepVars, prof, fcall>>
    /\ Sched("profiler")

\* The partition the trial asks for: one core per leaf.
PartArgs == [ncoresPercg |-> 1, ncores |-> handle.ncores, numanode |-> 0]

\* len(getTIDofPID(pid))
ThreadCount == Cardinality(DOMAIN tidCg)

NextPart ==
    \/ \E rb \in RemovedChoices : Ensure(PartArgs, rb)
    \/ RunDetached
    \/ \E text \in ChildTexts : ChildWrites(text, Len(text))
    \/ \E creator \in Tids, tid \in Tids : SpawnThread(creator, tid)
    \/ GetPidCall
    \/ \E probe \in ProbeOutcomes : GetPidStep(probe)
    \/ TrackPID(pid)
    \/ WaitCall
    \/ WaitBegin(ThreadCount)
    \/ WaitPoll(ThreadCount)
    \/ \E seedArg \in -1..MaxSeed : RandTIDCluster(seedArg, {}, {})
    \/ ProfilerStart

InitPart ==
    /\ lscpu = TopoInterleaved
    /\ hostCtl = <<W_CPUSET, W_CPU>>
    /\ fs \in {AbsentTree, OldTree}
    /\ tidCg = NoTids
    /\ cgobj = NoCG
    /\ lastCall = NoCall
    /\ lastSplit = NoSplit
    /\ handle \in {[ncores |-> n, oversub |-> 1] : n \in 2..MaxTids}
    /\ pidfile = [content |-> <<>>, pos |-> 0]
    /\ pid = NoPid
    /\ tidStabilized = FALSE
    /\ rpc = "idle"
    /\ now = 0
    /\ deadline = 0
    /\ w = [nThStayStable |-> 0, nTh |-> 0]
    /\ obs = <<>>
    /\ lastRun = NoRun
    /\ trial = [on |-> TRUE, pc |-> "setup", events |-> <<>>]

StartPart == InitPart /\ IdleSweep /\ IdleProf /\ IdleFun

SpecPart == StartPart /\ [][NextPart]_vars

(***************************************************************************)
(* Properties of ThreadedCG.                                               *)
(***************************************************************************)
EnsureReturned == lastCall.name = "ensure" /\ lastCall.exc = "none"

LeafCpus(name) == fs.dirs[name].cpus

\* C1: after a construction of ThreadedCG that returned, with
\* ncoresPercg < ncores, the root holds exactly ncores / ncoresPercg leaves,
\* leaf i is pinned to coreList[i*ncoresPercg : (i+1)*ncoresPercg], the leaves'
\* core sets are pairwise disjoint and their union is the root's core set.
C1_LeavesPartitionRoot ==
    (EnsureReturned /\ lastCall.args.ncoresPercg < lastCall.args.ncores) =>
        LET a == lastCall.args
            n == a.ncores \div a.ncoresPercg
            coreList == getCoreList(a.ncores, a.numanode).cores
            names == SubcgNames(W_VNUMA, n)
        IN  /\ DOMAIN fs.dirs = SeqToSet(names)
            /\ Cardinality(DOMAIN fs.dirs) = n
            /\ \A i \in 1..n :
                  LeafCpus(names[i]) =
                      {coreList[k] : k \in ((i - 1) * a.ncoresPercg + 1)..(i * a.ncoresPercg)}
            /\ \A i \in 1..n : \A j \in 1..n :
                  i # j => LeafCpus(names[i]) \cap LeafCpus(names[j]) = {}
            /\ UNION {LeafCpus(names[i]) : i \in 1..n} = fs.cpus

\* Two leaves of two cores each on node 1 of the interleaved host.
C1_Witness ==
    /\ EnsureReturned
    /\ lscpu = TopoInterleaved
    /\ lastCall.args = [ncoresPercg |-> 2, ncores |-> 4, numanode |-> 1]
    /\ LeafCpus(SubcgName(W_VNUMA, 0)) = {1, 3}
    /\ LeafCpus(SubcgName(W_VNUMA, 1)) = {5, 7}
    /\ fs.cpus = {1, 3, 5, 7}

\* C2: a construction that repeats the arguments of the construction just
\* before it, on the tree that one left, writes no control file and creates
\* or removes no directory.
C2_RepeatedEnsureWritesNothing ==
    (EnsureReturned /\ lastCall.repeat) => lastCall.log = <<>>

\* C3: randTIDCluster splits the T threads it read into numcgroups chunks, one
\* per leaf, whose sizes differ by at most 1, and every thread it read is in
\* exactly one chunk exactly once, and ends up in that chunk's leaf.
C3_SplitIsEvenPartition ==
    lastCall.name = "randTIDCluster" =>
        LET chunks == lastSplit.chunks
            threads == lastSplit.threads
            n == cgobj.numcgroups
            places(t) == {ip \in {<<i, p>> : i \in 1..Len(chunks), p \in 1..MaxTids} :
                              ip[2] <= Len(chunks[ip[1]]) /\ chunks[ip[1]][ip[2]] = t}
        IN  /\ Len(chunks) = n
            /\ \A i \in 1..Len(chunks) : \A j \in 1..Len(chunks) :
                  Len(chunks[i]) - Len(chunks[j]) <= 1
            /\ \A k \in 1..Len(threads) : Cardinality(places(threads[k])) = 1
            /\ \A i \in 1..Len(chunks) : \A p \in 1..Len(chunks[i]) :
                  /\ chunks[i][p] \in SeqToSet(threads)
                  /\ i <= Len(cgobj.subcgNames)
                  /\ tidCg[chunks[i][p]] = cgobj.subcgNames[i]

\* Fewer threads than leaves: two threads over four leaves.
C3_Witness ==
    /\ lastCall.name = "randTIDCluster"
    /\ Len(lastSplit.threads) = 2
    /\ cgobj.numcgroups = 4
    /\ Len(lastSplit.chunks) = 4
    /\ Len(lastSplit.chunks[2]) = 1
    /\ Len(lastSplit.chunks[3]) = 0

LeafSize(where, name) == Cardinality({t \in DOMAIN where : where[t] = name})

\* C20: every randTIDCluster on a tree that holds the workload reads all the
\* threads the workload has at that time, those spawned since the call before
\* and those a call before moved into a leaf included, and leaves every one of
\* them in a leaf, with leaf sizes that differ by at most 1.
C20_EveryCallRedistributesAll ==
    [][(/\ lastCall'.name = "randTIDCluster"
        /\ DOMAIN tidCg' = DOMAIN tidCg
        /\ \A t \in DOMAIN tidCg : tidCg[t] # OUTSIDE) =>
           /\ SeqToSet(lastSplit'.threads) = DOMAIN tidCg
           /\ \A t \in DOMAIN tidCg : tidCg'[t] \in SeqToSet(cgobj.subcgNames)
           /\ \A i \in 1..Len(cgobj.subcgNames) : \A j \in 1..Len(cgobj.subcgNames) :
                 LeafSize(tidCg', cgobj.subcgNames[i])
                     - LeafSize(tidCg', cgobj.subcgNames[j]) <= 1]_vars

\* The arguments of the last construction fail one of the two assertions.
BadArithmetic ==
    \/ lastCall.args.ncores % lastCall.args.ncoresPercg # 0
    \/ lastCall.args.ncores \div lastCall.args.ncoresPercg >= LeafLimit

\* C15: a construction whose ncores is not a multiple of ncoresPercg, or whose
\* ncores / ncoresPercg is 100 or more, fails with the assertion error, and
\* has not created, re-owned or removed a directory or written a control file.
C15_BadArithmeticTouchesNothing ==
    (lastCall.name = "ensure" /\ BadArithmetic) =>
        /\ lastCall.exc = "AssertionError"
        /\ lastCall.log = <<>>

\* A hundred leaves asked for on the tree an earlier run left: it is as it was.
C15_Witness ==
    /\ lastCall.name = "ensure"
    /\ lastCall.args.ncores = LeafLimit
    /\ lastCall.args.ncoresPercg = 1
    /\ lastCall.exc = "AssertionError"
    /\ fs = OldTree

\* C16: a configuration with ncoresPercg >= ncores, ncoresPercg = ncores
\* included, is refused: no cgroup is created or written for it.
C16_LeafAsLargeAsRootIsRefused ==
    (lastCall.name = "ensure" /\ lastCall.args.ncoresPercg >= lastCall.args.ncores) =>
        /\ lastCall.exc # "none"
        /\ lastCall.log = <<>>

\* The tokens of the root node's cgroup.controllers.
RootControllers == SeqToSet(SplitWS(KernelRead(fs, ROOT, "cgroup.controllers")))

LogOps(log) == {log[i].op : i \in 1..Len(log)}

\* C17: when cpuset is not a token of the root node's cgroup.controllers, a
\* construction with sound arguments fails with NotImplementedError; it has
\* written no control file, cgroup.controllers least of all, and made no leaf:
\* every control file and the leaves are as they were before the call.
C17_MissingControllerIsFatal ==
    [][(/\ lastCall'.name = "ensure"
        /\ ~BadArithmetic'
        /\ W_CPUSET \notin SeqToSet(fs'.controllers)) =>
          /\ lastCall'.exc = "NotImplementedError"
          /\ LogOps(lastCall'.log) \subseteq {"sudomkdir", "sudochown"}
          /\ fs'.subtree = fs.subtree
          /\ fs'.type = fs.type
          /\ fs'.cpus = fs.cpus
          /\ fs'.dirs = fs.dirs
          /\ cgobj' = NoCG]_vars

\* The root node was made and re-owned, offers cpu only, and the construction
\* stopped there.
C17_Witness ==
    /\ lastCall.name = "ensure"
    /\ lastCall.exc = "NotImplementedError"
    /\ fs.exists
    /\ fs.owner = "user"
    /\ RootControllers = {W_CPU}
    /\ Len(lastCall.log) = 2

\* C18: in a construction every removal of a stale leaf comes before the
\* first creation of a leaf and before the first write to a leaf's file.
C18_StaleRemovedBeforeNewCreated ==
    lastCall.name = "ensure" =>
        \A i \in 1..Len(lastCall.log) : \A j \in 1..Len(lastCall.log) :
            (i < j /\ lastCall.log[j].op = "rmdir") =>
                ~(lastCall.log[i].op \in {"mkdir", "write"} /\ lastCall.log[i].dir # ROOT)

\* C19: after a construction that returned, the directories under the root
\* whose name starts with the prefix are exactly self.subcgNames.
C19_LeavesAreExactlyTheTargets ==
    EnsureReturned =>
        /\ PrefixDirs(fs) = SeqToSet(cgobj.subcgNames)
        /\ cgobj.subcgNames =
              SubcgNames(W_VNUMA, lastCall.args.ncores \div lastCall.args.ncoresPercg)

\* Two leaves after four: the construction removed the third and the fourth.
C19_Witness ==
    /\ EnsureReturned
    /\ cgobj.numcgroups = 2
    /\ \E i \in 1..Len(lastCall.log) :
          lastCall.log[i] = DirOp("rmdir", SubcgName(W_VNUMA, 2))
    /\ \E i \in 1..Len(lastCall.log) :
          lastCall.log[i] = DirOp("rmdir", SubcgName(W_VNUMA, 3))
    /\ PrefixDirs(fs) = {SubcgName(W_VNUMA, 0), SubcgName(W_VNUMA, 1)}

\* C21: a randTIDCluster call prints the seed it uses before it writes any
\* thread id, and everything it logs afterwards is a thread move; and when
\* it is given the seed the call before it used, and reads the same threads
\* from the root for the same leaves, it splits them into the same chunks and
\* leaves every thread in the same leaf as that call did.
C21_SameSeedSameAssignment ==
    lastCall.name = "randTIDCluster" =>
        LET log == lastCall.log
            seedArg == lastCall.args[1]
            was == lastSplit.before
        IN  /\ Len(log) >= 1
            /\ log[1].op = "print"
            /\ ParseInt(log[1].text[6]).val = lastSplit.seed
            /\ \A i \in 2..Len(log) : log[i].op = "write"
            /\ (seedArg # -1 /\ was.seed = seedArg /\ was.threads = lastSplit.threads) =>
                   /\ lastSplit.chunks = was.chunks
                   /\ \A i \in 1..Len(was.chunks) : \A p \in 1..Len(was.chunks[i]) :
                          tidCg[was.chunks[i][p]] = cgobj.subcgNames[i]

\* Two calls in a row with seed 3 over the same three threads, which that
\* seed reorders.
C21_Witness ==
    /\ lastCall.name = "randTIDCluster"
    /\ lastCall.args = <<3>>
    /\ lastSplit.before.seed = 3
    /\ lastSplit.before.threads = lastSplit.threads
    /\ Len(lastSplit.threads) = MaxTids
    /\ Shuffle(lastSplit.threads, 3) # lastSplit.threads
    /\ Len(lastCall.log) = 1 + MaxTids

(***************************************************************************)
(* Properties of ParsecRun.                                                *)
(***************************************************************************)
Expected == handle.ncores * handle.oversub

\* The length of the longest run of equal values that ends the sequence.
RECURSIVE TrailingRun(_)
TrailingRun(s) ==
    IF Len(s) <= 1 THEN Len(s)
    ELSE IF s[Len(s)] = s[Len(s) - 1] THEN 1 + TrailingRun(SubSeq(s, 1, Len(s) - 1))
    ELSE 1

\* C4: waitUntilTIDStabilized never marks the handle stable, and never
\* returns, while the observed thread count is below ncores * oversub,
\* however many polls the count has stayed unchanged.
C4_NotStableBelowExpected ==
    /\ tidStabilized => (obs # <<>> /\ LastOf(obs) >= Expected)
    /\ (lastRun.name = "wait" /\ lastRun.exc = "none") => tidStabilized

\* A count below the expected one has stayed unchanged for more polls than
\* the threshold and the handle is still waiting.
C4_Witness ==
    /\ rpc = "w_loop"
    /\ ~tidStabilized
    /\ w.nTh < Expected
    /\ w.nThStayStable > StableThreshold

\* C5: the handle is reported stable exactly when the count has been seen
\* unchanged for stableThreshold consecutive polls at a value of at least
\* ncores * oversub: not earlier, not later, and polls that saw an earlier,
\* different count are not counted.
C5_StableAfterThresholdPolls ==
    /\ tidStabilized => TrailingRun(obs) = StableThreshold + 1
    /\ rpc = "w_loop" =>
          ~(TrailingRun(obs) > StableThreshold /\ LastOf(obs) >= Expected)

\* The count sat at one value, changed, and then stayed for the threshold.
C5_Witness ==
    /\ tidStabilized
    /\ Len(obs) = StableThreshold + 3
    /\ obs[1] = obs[2]
    /\ obs[2] # obs[3]

\* C6: getPid on a handshake file that never holds a parseable pid does not
\* hang: it is over before the timeout plus one back-off has passed, and it
\* ends with the time-out error.
C6_TimeoutWithinBound ==
    /\ rpc \in {"getpid", "w_getpid"} => now < PidFileTimeout + PidFileBackoff
    /\ (rpc = "idle" /\ lastRun.looped /\ ~lastRun.parsed) =>
          /\ lastRun.exc = "NotImplementedError"
          /\ lastRun.elapsed < PidFileTimeout + PidFileBackoff

\* getPid timed out on a file that held text, none of it a pid.
C6_Witness ==
    /\ rpc = "idle"
    /\ lastRun.name = "getPid"
    /\ lastRun.exc = "NotImplementedError"
    /\ pidfile = [content |-> <<"\n">>, pos |-> 1]

C12_ResolvedPidIsCached ==
    [][/\ (lastRun'.name = "getPid" /\ lastRun'.exc = "none") =>
             (pid' # NoPid /\ lastRun'.ret = pid')
       /\ pid # NoPid =>
             /\ pid' = pid
             /\ pidfile' = pidfile
             /\ rpc' \notin {"getpid", "w_getpid"}
             /\ (lastRun' # lastRun /\ lastRun'.name = "getPid") =>
                   /\ lastRun'.exc = "none"
                   /\ lastRun'.ret = pid
                   /\ ~lastRun'.looped
                   /\ lastRun'.probe = "none"]_vars

\* A getPid that returned the pid from self.pid.
C12_Witness ==
    /\ lastRun.name = "getPid"
    /\ lastRun.exc = "none"
    /\ ~lastRun.looped
    /\ lastRun.ret = MainTid
    /\ pid = MainTid

\* C13: self.tidStabilized only goes from False to True, and once it is True
\* waitUntilTIDStabilized returns at once: it counts no threads and does not
\* sleep.
C13_StableFlagIsMonotonic ==
    [][tidStabilized =>
          /\ tidStabilized'
          /\ rpc' = "idle"
          /\ obs' = obs
          /\ w' = w
          /\ now' = now
          /\ lastRun' # lastRun => (lastRun'.exc = "none" /\ ~lastRun'.polled)]_vars

\* A waitUntilTIDStabilized on a stable handle that returned without a poll.
C13_Witness ==
    /\ tidStabilized
    /\ lastRun.name = "wait"
    /\ lastRun.exc = "none"
    /\ ~lastRun.polled
    /\ Len(obs) = StableThreshold + 1

\* C14: waitUntilTIDStabilized always ends: a control thread that is inside
\* it comes back, with the handle marked stable or with an exception.
C14_WaitAlwaysEnds ==
    (rpc \in {"w_getpid", "w_begin", "w_loop"}) ~> (rpc = "idle")

(***************************************************************************)
(* Properties of the sweep.                                                *)
(***************************************************************************)
SweepEnded == spc \in {"done", "aborted"}

\* C7: an exception in one trial does not end the sweep: when the sweep is
\* over, every trial of it has been launched.
C7_EveryTrialStillRuns == SweepEnded => trialNo = TotalTrials(args)

ExampleRecord ==
    <<"4", ",", "8", ",", "0", ",", "1", ".", "2", "3", ",", "0", ".", "5", ",",
      "0", ".", "1", ",", "9", "8", "%", ",", "3", ",", "1", ",", "1", "2">>

HasValue(row, key, t, v) == key \in DOMAIN row /\ row[key].t = t /\ row[key].v = v

\* C9: the raw record "4,8,0,1.23,0.5,0.1,98%,3,1,12" becomes a row whose
\* usertime and systime are the values time printed for them, with
\* oversub = 2 and cputime = 0.6.
C9_RawRecordMapsOntoFields ==
    lastRecord.text = ExampleRecord =>
        /\ lastRecord.exc = "none"
        /\ HasValue(lastRecord.row, "usertime", "str", <<"0", ".", "5">>)
        /\ HasValue(lastRecord.row, "systime", "str", <<"0", ".", "1">>)
        /\ HasValue(lastRecord.row, "oversub", "int", 2)
        /\ HasValue(lastRecord.row, "cputime", "float", 60)

\* C10: a sweep without a profiler (and without cgroups) that is over, and
\* whose workloads all ran, has emitted one row per trial, each with the
\* trial's ncores and an oversub, and has written nothing to the cgroup
\* filesystem.
C10_OneRecordPerTrial ==
    (SweepEnded /\ args.profiler = "none" /\ ~args.dryrun /\ swExc # "FileNotFoundError") =>
        /\ Len(csvRows) = TotalTrials(args)
        /\ \A i \in 1..Len(csvRows) :
              /\ HasValue(csvRows[i], "ncores", "str",
                          IntToStr(TrialOf(args, i - 1).ncores))
              /\ "oversub" \in DOMAIN csvRows[i]
        /\ fs = AbsentTree
        /\ lastCall = NoCall

\* The launches whose child process is alive.
Running == {i \in 1..Len(launches) : launches[i].child = "running"}

\* C22: at most one workload launched by the sweep is running at any time,
\* and it is the one launched last: the workload of every earlier trial has
\* terminated, and parsecmgmt.wait() has returned for it, before the next
\* one is launched.
C22_OneWorkloadAtATime ==
    /\ Cardinality(Running) <= 1
    /\ Running \subseteq {trialNo}
    /\ \A i \in 1..Len(launches) :
          i < trialNo => launches[i].child = "exited" \/ args.dryrun

\* The second workload is running and the first one has ended.
C22_Witness ==
    /\ Len(launches) = 2
    /\ launches[1].child = "exited"
    /\ launches[2].child = "running"

OutputFor(rows) ==
    csvfile.start \o <<HeaderLine>> \o [i \in 1..Len(rows) |-> RowLine(rows[i])]

\* The trials whose workload ran to its end under /usr/bin/time and left its
\* measurements for sweep to read.
Measured ==
    {i \in 1..Len(launches) : /\ launches[i].timed
                              /\ launches[i].child = "exited"
                              /\ launches[i].record # "none"}

\* C24: at every point of a sweep, also when a trial has failed and ended
\* it, one record has been written for every trial that ran to its end under
\* the timing wrapper, and once a record has been written or the sweep has
\* ended the output file holds, on disk, the header followed by those
\* records in the order the trials ran.
C24_FileHoldsEveryCompletedTrial ==
    /\ Len(csvRows) = Cardinality(Measured)
    /\ (csvRows # <<>> \/ SweepEnded) => csvfile.disk = OutputFor(csvRows)

\* The trials that are over and whose workload ran to its end and, when it
\* was timed, left its measurements.
Over ==
    {i \in 1..Len(launches) : /\ launches[i].child = "exited"
                              /\ i < trialNo \/ spc \in {"loop", "done", "aborted"}
                              /\ swExc # "FileNotFoundError"}

\* C25: in every trial exactly one instrumentation is in effect: the
\* command carries the timing wrapper exactly when no profiler is requested,
\* a profiler has run exactly when one is requested, and a record has been
\* read and written exactly when the timing wrapper was used.
C25_ExactlyOneInstrumentation ==
    /\ \A i \in 1..Len(launches) : launches[i].timed <=> args.profiler = "none"
    /\ \A i \in Over :
          /\ launches[i].profiler # "none" <=> args.profiler # "none"
          /\ launches[i].profiler # "none" => launches[i].profiler = args.profiler
          /\ launches[i].record = "emitted" <=> launches[i].timed

(***************************************************************************)
(* Properties of the profilers.                                            *)
(***************************************************************************)
\* C26: the recorder of scheduling events (perfsched) records only when the
\* thread count of the workload has been found stable: in a sweep, and for a
\* profiler object, perf record has been started for it only if
\* tidStabilized is true.
C26_SchedRecorderWaitsForStable ==
    /\ \A i \in 1..Len(launches) : launches[i].profiler = "perfsched" => tidStabilized
    /\ (prof.variant = "perfsched" /\ prof.process # "none") => tidStabilized

\* C27: callback of the detached variant (runqlat-bcc) sends SIGINT to its
\* companion process first, goes past self.process.wait() only when the
\* companion has exited, and closes the output file after that and before it
\* returns; callback of every other variant changes nothing of the profiler,
\* the workload handle or any process.
C27_StopInterruptsWaitsCloses ==
    [][/\ (prof.pc = "returned" /\ prof'.pc # "returned") =>
             IF prof.variant = "runqlat-bcc"
             THEN /\ prof'.sigs = <<"SIGINT">>
                  /\ prof'.pc = "cb_wait"
                  /\ prof'.outputFile = "open"
             ELSE /\ prof' = [prof EXCEPT !.pc = "stopped"]
                  /\ UNCHANGED <<runVars, cgVars, sweepVars>>
       /\ prof'.pc \in {"cb_close", "stopped"} => prof'.process \in {"exited", "none"}
       /\ prof'.outputFile = "closed" => prof'.pc = "stopped" /\ prof'.process = "exited"
       /\ (prof'.pc = "stopped" /\ prof'.variant = "runqlat-bcc") =>
             prof'.outputFile = "closed"
      ]_vars

\* callback of runqlat-bcc has returned.
C27_Witness ==
    /\ prof.variant = "runqlat-bcc"
    /\ prof.pc = "stopped"
    /\ prof.sigs = <<"SIGINT">>
    /\ prof.process = "exited"
    /\ prof.outputFile = "closed"

(***************************************************************************)
(* Properties of getCoreList, getCoreListCompressed and the chain.         *)
(***************************************************************************)
\* The CPUs of a node in the order lscpu lists them.
RECURSIVE NodeCpus(_, _)
NodeCpus(lines, node) ==
    IF lines = <<>> THEN <<>>
    ELSE (IF ~lines[1].comment /\ lines[1].node = node THEN <<lines[1].cpu>> ELSE <<>>)
         \o NodeCpus(Tail(lines), node)

\* C28: getCoreList(ncores, numanode), for every ncores >= 0, returns
\* exactly the first ncores CPUs of numanode in the order of the host when
\* the node has at least ncores CPUs, and raises RuntimeError when it has
\* fewer.
C28_ExactlyCountCoresOfNode ==
    fcall.name = "getCoreList" =>
        LET ncores == fcall.args[1]
            have == NodeCpus(lscpu, fcall.args[2])
        IN  IF Len(have) >= ncores
            THEN fcall.exc = "none" /\ fcall.ret = SubSeq(have, 1, ncores)
            ELSE fcall.exc = "RuntimeError"

\* (start, end) as the CPUs start..end in increasing order.
RECURSIVE Expand(_)
Expand(ranges) ==
    IF ranges = <<>> THEN <<>>
    ELSE [i \in 1..(ranges[1][2] - ranges[1][1] + 1) |-> ranges[1][1] + i - 1]
         \o Expand(Tail(ranges))

\* C29: for every core list getCoreList returns, getCoreListCompressed
\* returns ranges (start, end) with start <= end whose expansion, in order,
\* is that list, and two CPUs c and c+1 that are neighbours in the list are
\* in the same range.
C29_RangesExpandToTheList ==
    (fcall.name = "getCoreListCompressed" /\ getCoreList(fcall.args[1], fcall.args[2]).ok) =>
        LET cpuList == getCoreList(fcall.args[1], fcall.args[2]).cores
            ranges == fcall.ret
        IN  /\ fcall.exc = "none"
            /\ \A i \in 1..Len(ranges) : ranges[i][1] <= ranges[i][2]
            /\ Expand(ranges) = cpuList
            /\ \A k \in 1..(Len(cpuList) - 1) :
                  cpuList[k + 1] = cpuList[k] + 1 =>
                      \E i \in 1..Len(ranges) :
                          ranges[i][1] <= cpuList[k] /\ cpuList[k + 1] <= ranges[i][2]

\* CPUs 0, 1, 4, 5 of node 0 become (0, 1), (4, 5).
C29_Witness ==
    /\ fcall.name = "getCoreListCompressed"
    /\ fcall.args = <<4, 0>>
    /\ fcall.ret = <<<<0, 1>>, <<4, 5>>>>

\* C30: applying the chain to a record that has been through it, at a later
\* time, raises nothing and leaves the record as it was; when the record was
\* written to a CSV file and read back in between, what the chain makes of it
\* is written as the same text.
C30_ChainIsIdempotent ==
    [][(fcall'.name = "chain" /\ fcall.passes >= 1 /\ fcall'.passes = fcall.passes + 1) =>
          /\ fcall'.exc = "none"
          /\ WrittenAndRead(fcall'.ret) = WrittenAndRead(fcall.ret)
          /\ fcall.name = "chain" => fcall'.ret = fcall.ret
      ]_vars

\* A record with a note of an exit status has been through the chain three
\* times.
C30_Witness ==
    /\ fcall.name = "chain"
    /\ fcall.passes = MaxPasses
    /\ fcall.exc = "none"
    /\ "note" \in DOMAIN fcall.ret
    /\ fcall.ret["note"].t = "list"
    /\ fcall.ret["timestamp"] = [t |-> "time", v |-> 1]
    /\ fcall.ret["oversub"] = [t |-> "int", v |-> 2]
    /\ fcall.ret["cputime"] = [t |-> "float", v |-> 60]

(***************************************************************************)
(* Properties of a partitioned trial.                                      *)
(***************************************************************************)
TrialOrder == <<"setup", "track", "redistribute", "profile">>

Leaves == SeqToSet(cgobj.subcgNames)

NamedFromTuple(a) ==
    a[1] \o <<".", "C">> \o IntToStr(a[2]) \o <<".", "O">> \o IntToStr(a[3])
    \o <<".">> \o Replace(IsoFormat(a[5]), ":", "_") \o <<".">> \o a[6]

\* C31: every profiler artifact is named
\* {package}.C{cores}.O{oversub}.{isoTimestamp}.{ext}, from the package, the
\* core count, the oversubscription ratio and the timestamp alone, and the
\* trace-name pattern recovers the package, the core count and the ratio
\* from it.
C31_ArtifactNameFromTuple ==
    /\ fcall.name = "perfdataPath" => fcall.ret = NamedFromTuple(fcall.args)
    /\ fcall.name = "PerfTrace" =>
          /\ fcall.exc = "none"
          /\ fcall.ret[2] = fcall.args[1]
          /\ fcall.ret[3] = IntToStr(fcall.args[2])
          /\ fcall.ret[4] = IntToStr(fcall.args[3])

\* C32: when waitUntilTIDStabilized declares the thread count stable, the
\* polls that made up the run of equal counts were a pollInterval apart, so
\* at least stableThreshold * pollInterval have passed since the wait began
\* to count.
C32_StableForThresholdIntervals ==
    (/\ rpc = "idle"
     /\ lastRun.name = "wait"
     /\ lastRun.exc = "none"
     /\ lastRun.polled) => lastRun.elapsed >= StableThreshold * PollInterval

\* A step that is a call of ensureCGContent on a control file.
ContentCallStep ==
    /\ lastCall'.name = "ensureCGContent"
    /\ (lastCall' # lastCall \/ fs' # fs)

\* C33: ensureCGContent writes to the control file only when what the file
\* reads fails the check and a content to enforce was given, and then it
\* writes that content once; when the file reads the desired content
\* already, or no content was given, the tree is left as it was.
C33_WritesOnlyOnFailedCheckWithContent ==
    [][ContentCallStep =>
          LET a == lastCall'.args
              current == KernelRead(fs, a.dir, a.file)
              passes == IF a.check.kind = "token"
                        THEN a.check.want \in SeqToSet(SplitWS(current))
                        ELSE current = a.check.want
          IN  /\ lastCall'.log # <<>> <=> (~passes /\ a.enforce)
              /\ lastCall'.log # <<>> =>
                    lastCall'.log = <<WriteOp(a.dir, a.file, a.content)>>
              /\ (current = a.content \/ ~a.enforce) => fs' = fs]_vars

\* A call found the file reading something else than the desired content and
\* wrote the content.
C33_Witness ==
    /\ lastCall.name = "ensureCGContent"
    /\ lastCall.args.enforce
    /\ lastCall.log = <<WriteOp(lastCall.args.dir, "cgroup.type", W_THREADED)>>
    /\ lastCall.args.dir # ROOT
    /\ Node(fs, lastCall.args.dir).type = W_THREADED

\* C34: after ensureCGExactContent(path, desired) has returned, the file
\* reads exactly desired, whatever it read before.
C34_ReadsBackDesired ==
    (/\ lastCall.name = "ensureCGContent"
     /\ lastCall.args.check.kind = "exact"
     /\ lastCall.args.enforce) =>
        KernelRead(fs, lastCall.args.dir, lastCall.args.file) = lastCall.args.content

\* C35: however the child's write or writes of its pid interleave with the
\* parent's reads of the handshake file, the pid getPid returns and caches is
\* the whole pid the child wrote, never a part of it.
C35_ResolvedPidIsWhole ==
    /\ pid # NoPid => pid = MainTid
    /\ (lastRun.name = "getPid" /\ lastRun.exc = "none") => lastRun.ret = MainTid

\* A step that is a call of randTIDCluster.
RedistributionStep ==
    /\ lastCall'.name = "randTIDCluster"
    /\ lastSplit' # lastSplit

\* C36: randTIDCluster runs to its end whatever the workload does in the
\* meantime: when threads end or start between the read of the root's thread
\* set and the writes, every thread that was read and is still there is in a
\* leaf afterwards, and the call has not stopped part-way.
C36_RedistributionSurvivesWorkload ==
    [][RedistributionStep =>
          /\ lastCall'.exc = "none"
          /\ \A t \in SeqToSet(lastSplit'.threads) \cap DOMAIN tidCg' :
                tidCg'[t] \in SeqToSet(cgobj.subcgNames)]_vars


\* The launches for which the sweep has built a record out of args.time_temp.
RecordBuilt == {i \in 1..Len(launches) : launches[i].record # "none"}

HasExitMessage(row) ==
    /\ StartsWith(row["ncores"].v, W_COMMAND)
    /\ Len(SplitLines(row["ncores"].v)) > 1
    /\ AllDigits(LastOf(SplitLines(row["ncores"].v)))

\* C38: a pass of the chain over a record whose ncores field begins with
\* 'Command ...' and ends with the real value on its last line leaves that
\* last line in ncores, the lines before it in note, and in oversub the
\* quotient of nthreads by the restored ncores; a pass over a record without
\* the message leaves ncores as it was and adds no note field.
C38_NoteRestoresNcoresBeforeOversub ==
    fcall.name = "chain" =>
        LET before == fcall.args[1]
            after == fcall.ret
            lines == SplitLines(before["ncores"].v)
        IN  IF HasExitMessage(before)
            THEN /\ HasValue(after, "ncores", "str", lines[Len(lines)])
                 /\ HasValue(after, "note", "list", SubSeq(lines, 1, Len(lines) - 1))
                 /\ HasValue(after, "oversub", "int",
                             ParseInt(before["nthreads"].v).val
                                 \div ParseInt(lines[Len(lines)]).val)
            ELSE /\ after["ncores"] = before["ncores"]
                 /\ "note" \in DOMAIN after => /\ "note" \in DOMAIN before
                                               /\ after["note"] = before["note"]

C38_Witness ==
    /\ fcall.name = "chain"
    /\ fcall.exc = "none"
    /\ HasExitMessage(fcall.args[1])
    /\ "note" \notin DOMAIN fcall.args[1]
    /\ HasValue(fcall.ret, "ncores", "str", <<"4">>)
    /\ HasValue(fcall.ret, "note", "list", <<W_EXITED>>)
    /\ HasValue(fcall.ret, "oversub", "int", 2)

=============================================================================
